---- MODULE Spec2Model ----
(***************************************************************************)
(* RelaySMS Publisher: the publication gateway.                            *)
(*                                                                         *)
(* Text (str) and bytes are both sequences of byte values 0..255; a str is *)
(* represented by its UTF-8 encoding.  Python's None is the value None.    *)
(***************************************************************************)
EXTENDS Integers, Sequences, FiniteSets, TLC

None == <<-1>>

Truthy(v) == v # None /\ v # <<>>

Colon == 58

Newline == 10

(***************************************************************************)
(* base64.b64decode (binascii.a2b_base64, non-strict): a character is a    *)
(* sextet 0..63, B64Pad for '=', or B64Junk for a character outside the    *)
(* alphabet.                                                               *)
(***************************************************************************)
B64Pad == 64

B64Junk == 65

RECURSIVE A2bBase64(_, _, _, _, _, _)
A2bBase64(chars, i, quad_pos, leftchar, pads, bin) ==
  IF i > Len(chars)
  THEN [err |-> quad_pos # 0, bytes |-> bin]
  ELSE LET ch == chars[i] IN
    IF ch = B64Pad
    THEN IF quad_pos >= 2 /\ quad_pos + pads + 1 >= 4
         THEN [err |-> FALSE, bytes |-> bin]
         ELSE A2bBase64(chars, i + 1, quad_pos, leftchar,
                        IF quad_pos >= 2 THEN pads + 1 ELSE pads, bin)
    ELSE IF ch >= 64
    THEN A2bBase64(chars, i + 1, quad_pos, leftchar, pads, bin)
    ELSE CASE quad_pos = 0 ->
                A2bBase64(chars, i + 1, 1, ch, 0, bin)
           [] quad_pos = 1 ->
                A2bBase64(chars, i + 1, 2, ch % 16, 0,
                          Append(bin, leftchar * 4 + ch \div 16))
           [] quad_pos = 2 ->
                A2bBase64(chars, i + 1, 3, ch % 4, 0,
                          Append(bin, leftchar * 16 + ch \div 4))
           [] OTHER ->
                A2bBase64(chars, i + 1, 0, 0, 0,
                          Append(bin, leftchar * 64 + ch))

b64decode(chars) == A2bBase64(chars, 1, 0, 0, 0, <<>>)

RECURSIVE b64encode(_)
b64encode(bytes) ==
  IF Len(bytes) = 0 THEN <<>>
  ELSE IF Len(bytes) = 1
  THEN << bytes[1] \div 4, (bytes[1] % 4) * 16, B64Pad, B64Pad >>
  ELSE IF Len(bytes) = 2
  THEN << bytes[1] \div 4, (bytes[1] % 4) * 16 + bytes[2] \div 16,
          (bytes[2] % 16) * 4, B64Pad >>
  ELSE << bytes[1] \div 4, (bytes[1] % 4) * 16 + bytes[2] \div 16,
          (bytes[2] % 16) * 4 + bytes[3] \div 64, bytes[3] % 64 >>
       \o b64encode(SubSeq(bytes, 4, Len(bytes)))

(***************************************************************************)
(* content_parser.parse_payload                                            *)
(***************************************************************************)
FormatSpec(key, fmt, n, ref, decoding) ==
  [key |-> key, fmt |-> fmt, n |-> n, ref |-> ref, decoding |-> decoding]

\* struct "<i": little-endian signed 32-bit
UnpackInt32(b) ==
  b[1] + 256 * b[2] + 65536 * b[3]
  + 16777216 * (IF b[4] >= 128 THEN b[4] - 256 ELSE b[4])

\* struct "<H"
UnpackUInt16(b) == b[1] + 256 * b[2]

\* FmtSize, were a field of declared length zero not to be read
FmtSizeNoEmptyField(spec, result, payload_len) ==
  CASE spec.fmt = "<i" -> 4
    [] spec.fmt = "<H" -> 2
    [] spec.fmt = "<B" -> 1
    [] spec.fmt = "s" -> spec.n
    [] spec.fmt = "ref" -> IF result[spec.ref] = 0 THEN -1 ELSE result[spec.ref]
    [] OTHER -> payload_len - (5 + result["len_ciphertext"])

\* FmtSize, were v0's remainder counted from the end of the length field
FmtSizeRestFromFour(spec, result, payload_len) ==
  CASE spec.fmt = "<i" -> 4
    [] spec.fmt = "<H" -> 2
    [] spec.fmt = "<B" -> 1
    [] spec.fmt = "s" -> spec.n
    [] spec.fmt = "ref" -> result[spec.ref]
    [] OTHER -> payload_len - (4 + result["len_ciphertext"])

\* the size of a field: a struct code, a fixed byte count, the value of an
\* earlier field (lambda d: d[ref]) or v0's remainder computation
FmtSize(spec, result, payload_len) ==
  CASE spec.fmt = "<i" -> 4
    [] spec.fmt = "<H" -> 2
    [] spec.fmt = "<B" -> 1
    [] spec.fmt = "s" -> spec.n
    [] spec.fmt = "ref" -> result[spec.ref]
    [] OTHER -> payload_len - (5 + result["len_ciphertext"])

AsciiValid(b) == \A k \in 1..Len(b) : b[k] < 128

RECURSIVE Utf8Valid(_)
Utf8Valid(b) ==
  IF Len(b) = 0 THEN TRUE
  ELSE LET c == b[1]
           n == IF c < 128 THEN 0
                ELSE IF c >= 194 /\ c <= 223 THEN 1
                ELSE IF c >= 224 /\ c <= 239 THEN 2
                ELSE IF c >= 240 /\ c <= 244 THEN 3
                ELSE -1
       IN /\ n >= 0
          /\ Len(b) >= 1 + n
          /\ \A k \in 2..(1 + n) : b[k] >= 128 /\ b[k] <= 191
          /\ Utf8Valid(SubSeq(b, 2 + n, Len(b)))

CanDecode(decoding, b) ==
  IF decoding = "ascii" THEN AsciiValid(b) ELSE Utf8Valid(b)

RECURSIVE ParseFields(_, _, _, _, _)
ParseFields(payload, format_spec, i, offset, result) ==
  IF i > Len(format_spec)
  THEN [err |-> FALSE, result |-> result]
  ELSE LET spec == format_spec[i]
           size == FmtSize(spec, result, Len(payload))
       IN IF size < 0
          THEN [err |-> TRUE, result |-> result]
          ELSE IF offset + size > Len(payload)
          THEN [err |-> FALSE, result |-> result]
          ELSE LET raw == SubSeq(payload, offset + 1, offset + size)
                   value == CASE spec.fmt = "<i" -> UnpackInt32(raw)
                              [] spec.fmt = "<H" -> UnpackUInt16(raw)
                              [] spec.fmt = "<B" -> raw[1]
                              [] OTHER -> raw
               IN IF /\ spec.fmt \notin {"<i", "<H", "<B"}
                     /\ spec.decoding # ""
                     /\ ~CanDecode(spec.decoding, raw)
                  THEN [err |-> TRUE, result |-> result]
                  ELSE ParseFields(payload, format_spec, i + 1, offset + size,
                                   result @@ (spec.key :> value))

\* the second loop: every key a break left unset defaults to empty
WithDefaults(format_spec, result) ==
  [k \in {format_spec[i].key : i \in 1..Len(format_spec)} |->
     IF k \in DOMAIN result THEN result[k] ELSE <<>>]

\* parse_payload, were a buffer too short for a field an error
ParsePayloadStrict(payload, format_spec) ==
  LET r == ParseFields(payload, format_spec, 1, 0, <<>>)
      short == \E i \in 1..Len(format_spec) : format_spec[i].key \notin DOMAIN r.result
  IN [err |-> r.err \/ short,
      result |-> IF r.err \/ short THEN <<>> ELSE WithDefaults(format_spec, r.result)]

parse_payload(payload, format_spec) ==
  LET r == ParseFields(payload, format_spec, 1, 0, <<>>)
  IN [err |-> r.err,
      result |-> IF r.err THEN <<>> ELSE WithDefaults(format_spec, r.result)]

(***************************************************************************)
(* content_parser: the envelope decoders                                   *)
(***************************************************************************)
V0Parsers ==
  << FormatSpec("len_ciphertext", "<i", 0, "", ""),
     FormatSpec("platform_shortcode", "s", 1, "", "ascii"),
     FormatSpec("ciphertext", "ref", 0, "len_ciphertext", ""),
     FormatSpec("device_id", "rest", 0, "", "") >>

decode_v0(payload) == parse_payload(payload, V0Parsers)

V1Parsers ==
  << FormatSpec("len_ciphertext", "<H", 0, "", ""),
     FormatSpec("len_device_id", "<B", 0, "", ""),
     FormatSpec("platform_shortcode", "s", 1, "", "ascii"),
     FormatSpec("ciphertext", "ref", 0, "len_ciphertext", ""),
     FormatSpec("device_id", "ref", 0, "len_device_id", ""),
     FormatSpec("language", "s", 2, "", "ascii") >>

\* version is the tag byte itself: "v1" is 1, "v2" is 2
decode_v1(payload) ==
  IF Len(payload) = 0
  THEN [err |-> TRUE, result |-> <<>>]
  ELSE LET r == parse_payload(SubSeq(payload, 2, Len(payload)), V1Parsers)
       IN IF r.err THEN r
          ELSE [err |-> FALSE, result |-> r.result @@ ("version" :> payload[1])]

\* is_v0_payload, were the sign of the length not tested
IsV0PayloadAnySign(payload) ==
  IF Len(payload) < 5 THEN FALSE
  ELSE Len(payload) >= 4 + 1 + UnpackInt32(SubSeq(payload, 1, 4))

is_v0_payload(payload) ==
  IF Len(payload) < 5 THEN FALSE
  ELSE LET ciphertext_length == UnpackInt32(SubSeq(payload, 1, 4))
       IN IF ciphertext_length < 0 THEN FALSE
          ELSE Len(payload) >= 4 + 1 + ciphertext_length

decode_content(content) ==
  LET d == b64decode(content)
  IN IF d.err THEN [err |-> TRUE, result |-> <<>>]
     ELSE IF is_v0_payload(d.bytes) THEN decode_v0(d.bytes)
     ELSE decode_v1(d.bytes)

(***************************************************************************)
(* content_parser: the content extractors.  An error is "none", a message  *)
(* ("str") or a caught exception ("exc").                                  *)
(***************************************************************************)
NoError == [kind |-> "none", text |-> ""]

StrError(text) == [kind |-> "str", text |-> text]

ExcError(text) == [kind |-> "exc", text |-> text]

\* str.split(sep, maxsplit)
RECURSIVE Split(_, _, _)
Split(s, sep, maxsplit) ==
  IF maxsplit = 0 \/ ~(\E k \in 1..Len(s) : s[k] = sep)
  THEN << s >>
  ELSE LET k == CHOOSE k \in 1..Len(s) :
                  s[k] = sep /\ \A j \in 1..(k - 1) : s[j] # sep
       IN << SubSeq(s, 1, k - 1) >>
          \o Split(SubSeq(s, k + 1, Len(s)), sep, maxsplit - 1)

\* extract_content_v0, were the content split at every colon
ExtractContentV0SplitAll(service_type, content) ==
  LET parts == Split(content, Colon, -1)
  IN  CASE service_type = "email" ->
             IF Len(parts) < 6
             THEN [error |-> StrError("Email content must have at least 6 parts."), parts |-> <<>>]
             ELSE [error |-> NoError,
                   parts |-> SubSeq(parts, 1, 6)
                             \o << IF Len(parts) > 6 THEN parts[7] ELSE None,
                                   IF Len(parts) > 7 THEN parts[8] ELSE None >>]
        [] service_type = "text" ->
             IF Len(parts) < 2
             THEN [error |-> StrError("Text content must have at least 2 parts."), parts |-> <<>>]
             ELSE [error |-> NoError,
                   parts |-> SubSeq(parts, 1, 2)
                             \o << IF Len(parts) > 2 THEN parts[3] ELSE None,
                                   IF Len(parts) > 3 THEN parts[4] ELSE None >>]
        [] service_type = "message" ->
             IF Len(parts) < 3
             THEN [error |-> StrError("Message content must have exactly 3 parts."), parts |-> <<>>]
             ELSE [error |-> NoError, parts |-> SubSeq(parts, 1, 3)]
        [] service_type = "test" ->
             [error |-> NoError, parts |-> << content >>]
        [] OTHER ->
             [error |-> StrError("Invalid service_type. Must be 'email', 'text', 'message', or 'test'."),
              parts |-> <<>>]

extract_content_v0(service_type, content) ==
  CASE service_type = "email" ->
         LET parts == Split(content, Colon, 7)
         IN IF Len(parts) < 6
            THEN [error |-> StrError("Email content must have at least 6 parts."),
                  parts |-> <<>>]
            ELSE [error |-> NoError,
                  parts |-> SubSeq(parts, 1, 6)
                            \o << IF Len(parts) > 6 THEN parts[7] ELSE None,
                                  IF Len(parts) > 7 THEN parts[8] ELSE None >>]
    [] service_type = "text" ->
         LET parts == Split(content, Colon, 3)
         IN IF Len(parts) < 2
            THEN [error |-> StrError("Text content must have at least 2 parts."),
                  parts |-> <<>>]
            ELSE [error |-> NoError,
                  parts |-> SubSeq(parts, 1, 2)
                            \o << IF Len(parts) > 2 THEN parts[3] ELSE None,
                                  IF Len(parts) > 3 THEN parts[4] ELSE None >>]
    [] service_type = "message" ->
         LET parts == Split(content, Colon, 2)
         IN IF Len(parts) # 3
            THEN [error |-> StrError("Message content must have exactly 3 parts."),
                  parts |-> <<>>]
            ELSE [error |-> NoError, parts |-> parts]
    [] service_type = "test" ->
         [error |-> NoError, parts |-> << content >>]
    [] OTHER ->
         [error |-> StrError("Invalid service_type. Must be 'email', 'text', 'message', or 'test'."),
          parts |-> <<>>]

ContentParsers(token_fmt) ==
  << FormatSpec("length_from", "<B", 0, "", ""),
     FormatSpec("length_to", "<H", 0, "", ""),
     FormatSpec("length_cc", "<H", 0, "", ""),
     FormatSpec("length_bcc", "<H", 0, "", ""),
     FormatSpec("length_subject", "<B", 0, "", ""),
     FormatSpec("length_body", "<H", 0, "", ""),
     FormatSpec("length_access_token", token_fmt, 0, "", ""),
     FormatSpec("length_refresh_token", token_fmt, 0, "", ""),
     FormatSpec("from", "ref", 0, "length_from", "utf-8"),
     FormatSpec("to", "ref", 0, "length_to", "utf-8"),
     FormatSpec("cc", "ref", 0, "length_cc", "utf-8"),
     FormatSpec("bcc", "ref", 0, "length_bcc", "utf-8"),
     FormatSpec("subject", "ref", 0, "length_subject", "utf-8"),
     FormatSpec("body", "ref", 0, "length_body", "utf-8"),
     FormatSpec("access_token", "ref", 0, "length_access_token", "utf-8"),
     FormatSpec("refresh_token", "ref", 0, "length_refresh_token", "utf-8") >>

\* the re-shaping of the parsed mapping, shared by v1 and v2
ExtractPacked(service_type, content, parsers) ==
  LET r == parse_payload(content, parsers)
      result == r.result
  IN IF r.err
     THEN [error |-> ExcError("parse_payload"), parts |-> <<>>]
     ELSE CASE service_type = "email" ->
                 [error |-> NoError,
                  parts |-> << result["from"], result["to"], result["cc"],
                               result["bcc"], result["subject"], result["body"],
                               result["access_token"], result["refresh_token"] >>]
            [] service_type = "text" ->
                 [error |-> NoError,
                  parts |-> << result["from"], result["body"],
                               result["access_token"], result["refresh_token"] >>]
            [] service_type = "message" ->
                 [error |-> NoError,
                  parts |-> << result["from"], result["to"], result["body"],
                               result["access_token"], result["refresh_token"] >>]
            [] service_type = "test" ->
                 [error |-> NoError, parts |-> << result["from"] >>]
            [] OTHER ->
                 [error |-> StrError("Invalid service_type. Must be 'email', 'text', 'message', or 'test'."),
                  parts |-> <<>>]

extract_content_v1(service_type, content) ==
  ExtractPacked(service_type, content, ContentParsers("<B"))

extract_content_v2(service_type, content) ==
  ExtractPacked(service_type, content, ContentParsers("<H"))

\* str.replace("\n", "")
RECURSIVE StripNewlines(_)
StripNewlines(s) ==
  IF Len(s) = 0 THEN <<>>
  ELSE (IF s[1] = Newline THEN <<>> ELSE << s[1] >>)
       \o StripNewlines(SubSeq(s, 2, Len(s)))

(***************************************************************************)
(* platforms/adapter_manager.py: the adapters directory and the registry   *)
(***************************************************************************)
\* str.lower() on the names the model uses
Lower(s) ==
  CASE s = "Gmail" -> "gmail"
    [] s = "OAuth2" -> "oauth2"
    [] OTHER -> s

Manifest(name, shortcode, protocol_type, service_type) ==
  [name |-> name, shortcode |-> shortcode,
   protocol_type |-> protocol_type, service_type |-> service_type]

\* one entry of os.listdir(adapters_dir): a directory whose manifest.ini has
\* a [platform] section ("ok"), has none or is missing ("invalid"), or is not
\* parseable by configparser ("corrupt": config.read raises); files says
\* whether main.py and config.ini are there as well
DirEntry(dir, state, manifest) ==
  [dir |-> dir, state |-> state, manifest |-> manifest, files |-> TRUE]

Gmail == Manifest("gmail", << 103 >>, "oauth2", "email")

Twitter == Manifest("twitter", << 116 >>, "oauth2", "text")

Telegram == Manifest("telegram", << 84 >>, "pnba", "message")

Reliability == Manifest("reliability", << 114 >>, "event", "test")

Mastodon == Manifest("mastodon", << 109 >>, "oauth2", "message")

Signal == Manifest("signal", << 115 >>, "pnba", "email")

Probe == Manifest("probe", << 112 >>, "event", "text")

Bridge == Manifest("bridge", << 98 >>, "smtp", "email")

NoManifest == Manifest("", <<>>, "", "")

\* the directory listings the adapters directory moves between
DirListing(d) ==
  CASE d = "all" ->
         << DirEntry("gmail_oauth2", "ok", Gmail),
            DirEntry("twitter_oauth2", "ok", Twitter),
            DirEntry("telegram_pnba", "ok", Telegram),
            DirEntry("reliability_event", "ok", Reliability),
            DirEntry("mastodon_oauth2", "ok", Mastodon),
            DirEntry("signal_pnba", "ok", Signal),
            DirEntry("probe_event", "ok", Probe),
            DirEntry("bridge_smtp", "ok", Bridge),
            DirEntry("scratch", "invalid", NoManifest) >>
    [] d = "few" ->
         << DirEntry("reliability_event", "ok", Reliability) >>
    [] OTHER ->
         << DirEntry("gmail_oauth2", "ok", Gmail),
            DirEntry("broken", "corrupt", NoManifest),
            DirEntry("telegram_pnba", "ok", Telegram) >>

DirNames == {"all", "few", "broken"}

\* _calculate_directory_hash: the digest identifies the directory content
\* (MD5 collisions are not modelled)
calculate_directory_hash(d) == d

\* the registry key f"{name}_{protocol}".lower()
RegistryKey(name, protocol) == << Lower(name), Lower(protocol) >>

\* the loop of _populate_registry over os.listdir
RECURSIVE LoadAdapters(_, _, _)
LoadAdapters(listing, i, reg) ==
  IF i > Len(listing)
  THEN [raised |-> FALSE, registry |-> reg]
  ELSE LET item == listing[i]
           key == RegistryKey(item.manifest.name, item.manifest.protocol_type)
           manifest_data == item.manifest @@ ("path" :> item.dir)
       IN IF item.state = "corrupt"
          THEN [raised |-> TRUE, registry |-> reg]
          ELSE IF item.state = "ok" /\ item.manifest.name # ""
          THEN LoadAdapters(listing, i + 1,
                 [k \in DOMAIN reg \cup {key} |->
                    IF k = key THEN manifest_data ELSE reg[k]])
          ELSE LoadAdapters(listing, i + 1, reg)

\* _is_registry_outdated writes the cache hash before the rescan
populate_registry(dir, reg, hash) ==
  LET current_hash == calculate_directory_hash(dir)
  IN IF hash = current_hash
     THEN [raised |-> FALSE, registry |-> reg, cache_hash |-> hash]
     ELSE LET l == LoadAdapters(DirListing(dir), 1, <<>>)
          IN [raised |-> l.raised, registry |-> l.registry,
              cache_hash |-> current_hash]

\* get_adapter(shortcode): the first registry value with that shortcode
get_adapter(dir, reg, hash, shortcode) ==
  LET p == populate_registry(dir, reg, hash)
      hits == {k \in DOMAIN p.registry : p.registry[k].shortcode = shortcode}
  IN [raised |-> p.raised, registry |-> p.registry, cache_hash |-> p.cache_hash,
      found |-> ~p.raised /\ Truthy(shortcode) /\ hits # {},
      manifest |-> IF ~p.raised /\ Truthy(shortcode) /\ hits # {}
                   THEN p.registry[CHOOSE k \in hits : TRUE]
                   ELSE NoManifest @@ ("path" :> "")]

get_adapter_path(dir, reg, hash, name, protocol) ==
  LET p == populate_registry(dir, reg, hash)
      key == RegistryKey(name, protocol)
  IN [raised |-> p.raised, registry |-> p.registry, cache_hash |-> p.cache_hash,
      found |-> ~p.raised /\ key \in DOMAIN p.registry,
      path |-> IF ~p.raised /\ key \in DOMAIN p.registry
               THEN p.registry[key].path ELSE ""]

(***************************************************************************)
(* platforms/adapter_ipc_handler.py: AdapterIPCHandler.invoke.  proc is    *)
(* what the child process does.                                            *)
(***************************************************************************)
EmptyDict == [access_token |-> None, refresh_token |-> None]

Token(access_token, refresh_token) ==
  [access_token |-> access_token, refresh_token |-> refresh_token]

\* the "result" object of an adapter's JSON response: null, or an object
\* with success, message, a token ("refreshed_token" of send_message, "token"
\* of the exchange methods), userinfo and two_step_verification_enabled
AdapterResult(null, success, message, has_token, token, has_userinfo, two_step) ==
  [null |-> null, success |-> success, message |-> message,
   has_token |-> has_token, token |-> token, has_userinfo |-> has_userinfo,
   two_step_verification_enabled |-> two_step]

NullResult == AdapterResult(TRUE, FALSE, "", FALSE, EmptyDict, FALSE, FALSE)

Proc(kind, result, error) == [kind |-> kind, result |-> result, error |-> error]

\* AdapterIPCHandler.invoke as the servicer sees it, by the kind of answer the
\* child gives; the "timeout" kind is a child that is gone once its pipes are
\* closed (the steps of one call are InvokeCall .. InvokeReturn below)
invoke(proc) ==
  CASE proc.kind = "no_python" ->
         [raised |-> "FileNotFoundError", started |-> FALSE,
          result |-> NullResult, error |-> ""]
    [] proc.kind = "timeout" ->
         [raised |-> "RuntimeError: Adapter invocation timed out.",
          started |-> TRUE, result |-> NullResult, error |-> ""]
    [] proc.kind = "nonzero" ->
         [raised |-> "RuntimeError: Adapter subprocess exited with error",
          started |-> TRUE, result |-> NullResult, error |-> ""]
    [] proc.kind = "empty" ->
         [raised |-> "", started |-> TRUE, result |-> NullResult,
          error |-> "No response from adapter."]
    [] proc.kind = "badjson" ->
         [raised |-> "", started |-> TRUE, result |-> NullResult,
          error |-> "Invalid JSON from adapter"]
    [] proc.kind = "nonobject" ->
         [raised |-> "AttributeError", started |-> TRUE,
          result |-> NullResult, error |-> ""]
    [] OTHER ->
         [raised |-> "", started |-> TRUE, result |-> proc.result,
          error |-> proc.error]

(***************************************************************************)
(* grpc_publisher_service.py: the state of the service while it handles    *)
(* one request.  The vault, the adapter processes, Sentry and the          *)
(* notification dispatcher are collaborators: the model records the calls  *)
(* made to them (trace, sentry, notifications) and draws their answers.    *)
(***************************************************************************)
VARIABLES adapters_dir, registry, cache_hash, rpc, pc, request, locals,
          vault, context, outcome, trace, sentry, notifications

\* one call of AdapterIPCHandler.invoke seen from inside: the child process,
\* the position of the call, and the seconds communicate() has waited
VARIABLES process, ipc, clock

\* the servicer's state
service == << adapters_dir, registry, cache_hash, rpc, pc, request, locals,
              vault, context, outcome, trace, sentry, notifications >>

\* the adapters directory and the venv directory as AdapterManager's
\* maintenance calls write them, and the last such call
VARIABLES adapters_root, venv_root, manager

\* a payload handed to the content parser and what came of it
VARIABLES payload, decoded

channel == << process, ipc, clock >>

disk == << adapters_root, venv_root, manager >>

parser == << payload, decoded >>

\* the server's worker threads inside AdapterManager's lookups
VARIABLES threads

\* the state the servicer's steps do not look into
offstage == << channel, disk, parser, threads >>

vars == << adapters_dir, registry, cache_hash, rpc, pc, request, locals,
           vault, context, outcome, trace, sentry, notifications,
           process, ipc, clock, adapters_root, venv_root, manager,
           payload, decoded, threads >>

MOCK_DELIVERY_SMS == TRUE

Ev(op, ok, arg) == [op |-> op, ok |-> ok, arg |-> arg]

Details(prefix, text, shortcode) ==
  [prefix |-> prefix, text |-> text, shortcode |-> shortcode]

NoDetails == Details("", "", <<>>)

Oops == "Oops! Something went wrong. Please try again later."

\* handle_create_grpc_error_response: the status code, the details and what is
\* captured by Sentry.  error is the error's text, shortcode the value
\* formatted into it.
handle_create_grpc_error_response(error, shortcode, is_exception, status_code, send_to_sentry, user_msg, error_type, error_prefix) ==
  LET msg == IF user_msg # "" THEN user_msg ELSE error
  IN [code |-> status_code,
      details |-> Details(error_prefix, msg, shortcode),
      sentry |-> IF error_type = "UNKNOWN" /\ is_exception
                 THEN IF send_to_sentry
                      THEN << [capture |-> "exception", text |-> error] >>
                      ELSE <<>>
                 ELSE IF send_to_sentry
                      THEN << [capture |-> "message", text |-> msg] >>
                      ELSE <<>>]

Response(state, success, message) ==
  [state |-> state, success |-> success, message |-> message]

\* what one step of a handler does to the request's state
Continue(events, next_pc) ==
  [events |-> events, context |-> context, sentry |-> <<>>,
   outcome |-> outcome, notes |-> <<>>, pc |-> next_pc]

\* return handle_create_grpc_error_response(...): the response is response()
ErrorResponse(events, e, notes) ==
  [events |-> events, context |-> [code |-> e.code, details |-> e.details],
   sentry |-> e.sentry, outcome |-> Response("returned", FALSE, ""),
   notes |-> notes, pc |-> "done"]

\* return response(success=..., message=...): the context is left alone
PlainResponse(events, success, message, notes) ==
  [events |-> events, context |-> context, sentry |-> <<>>,
   outcome |-> Response("returned", success, message),
   notes |-> notes, pc |-> "done"]

\* an exception leaves the handler
Escaped(events, exc) ==
  [events |-> events, context |-> context, sentry |-> <<>>,
   outcome |-> Response("raised", FALSE, exc), notes |-> <<>>, pc |-> "done"]

Apply(x) ==
  /\ trace' = trace \o x.events
  /\ context' = x.context
  /\ sentry' = sentry \o x.sentry
  /\ outcome' = x.outcome
  /\ notifications' = notifications \o x.notes
  /\ pc' = x.pc

\* except NotImplementedError
Unimplemented(events, text) ==
  ErrorResponse(events,
    handle_create_grpc_error_response(text, <<>>, FALSE, "UNIMPLEMENTED",
                                      FALSE, "", "ERROR", ""),
    <<>>)

NotSupportedPlatform == "The platform with this protocol is currently not supported."

NotSupportedService == "The service type is not supported."

\* except Exception, in the six token-lifecycle handlers
InternalError(events, exc) ==
  ErrorResponse(events,
    handle_create_grpc_error_response(exc, <<>>, TRUE, "INTERNAL",
                                      FALSE, Oops, "UNKNOWN", ""),
    <<>>)

(***************************************************************************)
(* handle_request_field_validation                                         *)
(***************************************************************************)
RequiredFields(h) ==
  CASE h = "PublishContent" -> << "content" >>
    [] h = "GetOAuth2AuthorizationUrl" -> << "platform" >>
    [] h = "ExchangeOAuth2CodeAndStore" ->
         << "long_lived_token", "platform", "authorization_code" >>
    [] h = "RevokeAndDeleteOAuth2Token" ->
         << "long_lived_token", "platform", "account_identifier" >>
    [] h = "GetPNBACode" -> << "phone_number", "platform" >>
    [] h = "ExchangePNBACodeAndStore" ->
         << "long_lived_token", "phone_number", "platform",
            "authorization_code" >>
    [] OTHER -> << "long_lived_token", "platform", "account_identifier" >>

\* not getattr(request, field, None)
FieldMissing(req, field) ==
  IF field = "content" THEN req.content = <<>> ELSE req[field] = ""

MissingText(field) ==
  CASE field = "content" -> "Missing required field: content"
    [] field = "platform" -> "Missing required field: platform"
    [] field = "long_lived_token" -> "Missing required field: long_lived_token"
    [] field = "authorization_code" -> "Missing required field: authorization_code"
    [] field = "account_identifier" -> "Missing required field: account_identifier"
    [] OTHER -> "Missing required field: phone_number"

\* the first missing field in the declared order, "" if none
RECURSIVE FirstMissing(_, _, _)
FirstMissing(req, required_fields, i) ==
  IF i > Len(required_fields) THEN ""
  ELSE IF FieldMissing(req, required_fields[i]) THEN required_fields[i]
  ELSE FirstMissing(req, required_fields, i + 1)

\* the validation, were the first declared field not looked at
ValidationPastFirstField(req, required_fields) ==
  FirstMissing(req, required_fields, 2)

handle_request_field_validation(req, required_fields) ==
  FirstMissing(req, required_fields, 1)

(***************************************************************************)
(* The requests and the collaborators' answers the model draws from        *)
(***************************************************************************)
\* a v0 envelope: int32le(len(ciphertext)) + shortcode + ciphertext + device id
V0Payload(shortcode, ciphertext, device_id) ==
  << Len(ciphertext), 0, 0, 0 >> \o shortcode \o ciphertext \o device_id

\* a tagged envelope: tag + uint16le(len(ciphertext)) + uint8(len(device id))
\* + shortcode + ciphertext + device id + language
V1Payload(tag, shortcode, ciphertext, device_id, language) ==
  << tag, Len(ciphertext), 0, Len(device_id) >> \o shortcode \o ciphertext
  \o device_id \o language

Shortcodes ==
  { << 103 >>, << 116 >>, << 84 >>, << 114 >>, << 109 >>, << 115 >>,
    << 112 >>, << 98 >>, << 122 >> }

PayloadSamples ==
  { V0Payload(c, << 7 >>, <<>>) : c \in Shortcodes }
  \cup { V0Payload(<< 103 >>, << 7 >>, << 9 >>),
         V0Payload(<< 200 >>, <<>>, <<>>),
         V1Payload(1, << 103 >>, << 7 >>, << 9 >>, << 101, 110 >>),
         V1Payload(1, << 84 >>, << 7 >>, <<>>, << 102, 114 >>),
         V1Payload(2, << 116 >>, << 7 >>, << 9 >>, << 101, 110 >>),
         V1Payload(3, << 103 >>, << 7 >>, << 9 >>, << 101, 110 >>),
         << 1 >> }

Contents ==
  { b64encode(p) : p \in PayloadSamples } \cup { <<>>, << 1 >> }

\* "s:t:c:b:j:m", the same with ":A:R" and with ":A", "s\n:r:m", "s", an invalid UTF-8
\* byte, and three packed records (v1 email with tokens, v1 message, v2 text
\* with tokens)
Plaintexts ==
  { << 115, 58, 116, 58, 99, 58, 98, 58, 106, 58, 109 >>,
    << 115, 58, 116, 58, 99, 58, 98, 58, 106, 58, 109, 58, 65, 58, 82 >>,
    << 115, 58, 116, 58, 99, 58, 98, 58, 106, 58, 109, 58, 65 >>,
    << 115, 10, 58, 114, 58, 109 >>,
    << 115 >>,
    << 255 >>,
    << 1, 1, 0, 0, 0, 0, 0, 0, 1, 0, 1, 1, 115, 116, 109, 65, 82 >>,
    << 1, 1, 0, 0, 0, 0, 0, 0, 1, 0, 0, 0, 115, 116, 109 >>,
    << 1, 0, 0, 0, 0, 0, 0, 0, 1, 0, 1, 0, 1, 0, 115, 109, 65, 82 >> }

\* an answer of the vault: an RPC error, a response with success=false, or a
\* response with success=true
VaultAnswer(kind, text, payload_plaintext, country_code) ==
  [kind |-> kind, text |-> text, payload_plaintext |-> payload_plaintext,
   country_code |-> country_code]

VaultAnswers ==
  { VaultAnswer("rpc_error", "vault unavailable", <<>>, ""),
    VaultAnswer("not_success", "vault refused", <<>>, ""),
    VaultAnswer("ok", "", <<>>, "") }

\* the status code of a vault RPC error
VaultErrorCode == "UNAVAILABLE"

DecryptAnswers ==
  { VaultAnswer("rpc_error", "vault unavailable", <<>>, ""),
    VaultAnswer("not_success", "vault refused", <<>>, ""),
    VaultAnswer("ok", "", << 1 >>, "CM") }
  \cup { VaultAnswer("ok", "", b64encode(p),
                     IF Len(p) % 2 = 0 THEN "CM" ELSE "NG") : p \in Plaintexts }

StoredToken == Token(<< 65, 48 >>, << 82, 48 >>)

RefreshedToken == Token(<< 65, 49 >>, << 82, 49 >>)

SameRefreshToken == Token(<< 65, 49 >>, << 82 >>)

NotStored == [stored |-> FALSE, token |-> EmptyDict]

Stored(token) == [stored |-> TRUE, token |-> token]

VaultStates == { NotStored, Stored(StoredToken) }

ProcOutcomes ==
  { Proc(k, NullResult, "") :
      k \in {"no_python", "timeout", "nonzero", "empty", "badjson", "nonobject"} }
  \cup
  { Proc("json", NullResult, "adapter error"),
    Proc("json", NullResult, ""),
    Proc("json", AdapterResult(FALSE, TRUE, "sent", FALSE, EmptyDict, FALSE, FALSE), ""),
    Proc("json", AdapterResult(FALSE, TRUE, "sent", TRUE, RefreshedToken, TRUE, FALSE), ""),
    Proc("json", AdapterResult(FALSE, TRUE, "sent", TRUE, SameRefreshToken, TRUE, FALSE), ""),
    Proc("json", AdapterResult(FALSE, FALSE, "rejected", FALSE, EmptyDict, FALSE, FALSE), ""),
    Proc("json", AdapterResult(FALSE, FALSE, "", TRUE, RefreshedToken, TRUE, FALSE), ""),
    Proc("json", AdapterResult(FALSE, TRUE, "", FALSE, EmptyDict, FALSE, TRUE), "") }

Handlers ==
  { "PublishContent", "GetOAuth2AuthorizationUrl", "ExchangeOAuth2CodeAndStore",
    "RevokeAndDeleteOAuth2Token", "GetPNBACode", "ExchangePNBACodeAndStore",
    "RevokeAndDeletePNBAToken" }

Request(content, platform, long_lived_token, authorization_code, account_identifier, phone_number, password, store_on_device) ==
  [content |-> content, platform |-> platform,
   long_lived_token |-> long_lived_token,
   authorization_code |-> authorization_code,
   account_identifier |-> account_identifier,
   phone_number |-> phone_number, password |-> password,
   store_on_device |-> store_on_device]

Platforms == { "", "Gmail", "telegram", "mastodon", "nosuch" }

\* the fields a handler does not read are left empty
Requests(h) ==
  IF h = "PublishContent"
  THEN { Request(c, "", "", "", "", "", "", FALSE) : c \in Contents }
  ELSE { r \in { Request(<<>>, p, l, c, a, n, w, d) :
                   p \in Platforms, l \in {"", "llt"}, c \in {"", "code"},
                   a \in {"", "acct"}, n \in {"", "+237"}, w \in {"", "pw"},
                   d \in BOOLEAN } :
           /\ r.store_on_device => h = "ExchangeOAuth2CodeAndStore"
           /\ \A f \in { "long_lived_token", "authorization_code",
                      "account_identifier", "phone_number", "password" } :
             (f \notin { RequiredFields(h)[i] : i \in 1..Len(RequiredFields(h)) }
              /\ ~(f = "password" /\ h = "ExchangePNBACodeAndStore"))
               => r[f] = "" }

NoLocals ==
  [bound |-> {}, decoded_payload |-> <<>>,
   platform_info |-> NoManifest @@ ("path" :> ""),
   decrypted_result |-> [payload_plaintext |-> <<>>, country_code |-> ""],
   content_parts |-> <<>>, adapter |-> "", token |-> EmptyDict]

\* the child an adapter's main.py turns out to be: it "answers" (writes its
\* output and exits by itself), "lingers" (exits only once its pipes are
\* closed), "hangs" (never exits unless killed) or is "unstartable" (Popen
\* raises); stdout and stderr are what it has written when it ends
Child(behaviour, returncode, stdout, stderr) ==
  [behaviour |-> behaviour, returncode |-> returncode, stdout |-> stdout,
   stderr |-> stderr]

NoChild == Child("none", 0, << >>, << >>)

NoProcess ==
  [spawned |-> FALSE, alive |-> FALSE, killed |-> FALSE, pipes_open |-> FALSE,
   child |-> NoChild]

\* pending is what the with block is left by: "" (not yet), "return" or the
\* exception raised
Call(at, pending, state, result, error, text) ==
  [at |-> at, pending |-> pending, state |-> state, result |-> result,
   error |-> error, text |-> text]

NoCall ==
  Call("idle", "", "pending", [type |-> "NoneType", value |-> ""],
       [type |-> "NoneType", value |-> ""], "")

\* the adapters directory of a deployment with two adapters installed
Installed ==
  << DirEntry("gmail_oauth2", "ok", Gmail),
     DirEntry("telegram_pnba", "ok", Telegram) >>

\* what the last maintenance call was and did; removed is the set of keys
\* removed and not added again since
Operation(op, raised, fetched, rescanned, before, removed) ==
  [op |-> op, raised |-> raised, fetched |-> fetched, rescanned |-> rescanned,
   before |-> before, removed |-> removed]

NoOperation ==
  Operation("none", "", FALSE, FALSE, [adapters |-> << >>, venvs |-> {}, registry |-> << >>, cache_hash |-> ""], {})

NotDecoded == [by |-> "none"]

\* two of the ThreadPoolExecutor's workers
Threads == { "worker_0", "worker_1" }

\* one thread's call of get_adapter or get_adapter_path: where it stands, what
\* it looks up, its locals (current_hash, the os.listdir items still to load,
\* the size the dict iterator started from), how the call ended, and whether
\* the adapter has been on disk with a loadable manifest since the call began
Lookup(at, method, adapter, current_hash, items, size, result, on_disk) ==
  [at |-> at, method |-> method, adapter |-> adapter, current_hash |-> current_hash,
   items |-> items, size |-> size, result |-> result, on_disk |-> on_disk]

NoLookup == Lookup("idle", "", NoManifest, "", << >>, 0, "", FALSE)

NoLookups == [t \in Threads |-> NoLookup]

ServiceInit ==
  /\ adapters_dir \in DirNames
  /\ registry = <<>>
  /\ cache_hash = "None"
  /\ rpc = ""
  /\ pc = "idle"
  /\ request = Request(<<>>, "", "", "", "", "", "", FALSE)
  /\ locals = NoLocals
  /\ vault = NotStored
  /\ context = [code |-> "OK", details |-> NoDetails]
  /\ outcome = Response("pending", FALSE, "")
  /\ trace = <<>>
  /\ sentry = <<>>
  /\ notifications = <<>>

ChannelInit ==
  /\ process = NoProcess
  /\ ipc = NoCall
  /\ clock = 0

Init ==
  /\ ServiceInit
  /\ ChannelInit
  /\ adapters_root = Installed
  /\ venv_root = { "gmail_oauth2", "telegram_pnba" }
  /\ manager = NoOperation
  /\ payload = << >>
  /\ decoded = NotDecoded
  /\ threads = NoLookups

\* the server hands a request to the servicer; the vault holds whatever other
\* clients left
Receive ==
  /\ pc = "idle"
  /\ \E h \in Handlers : \E r \in Requests(h) :
       /\ rpc' = h
       /\ request' = r
  /\ vault' \in VaultStates
  /\ pc' = "validate"
  /\ UNCHANGED offstage
  /\ UNCHANGED << adapters_dir, registry, cache_hash, locals, context, outcome,
                  trace, sentry, notifications >>

\* the handler has returned (or raised): its locals and its context are gone,
\* the registry and its cache hash are class attributes and stay
Return ==
  /\ pc = "done"
  /\ pc' = "idle"
  /\ rpc' = ""
  /\ request' = Request(<<>>, "", "", "", "", "", "", FALSE)
  /\ locals' = NoLocals
  /\ context' = [code |-> "OK", details |-> NoDetails]
  /\ outcome' = Response("pending", FALSE, "")
  /\ trace' = <<>>
  /\ sentry' = <<>>
  /\ notifications' = <<>>
  /\ UNCHANGED offstage
  /\ UNCHANGED << adapters_dir, registry, cache_hash, vault >>

\* the adapter management CLI (platforms/cli.py) runs in another process
ChangeAdaptersDir ==
  /\ \E d \in DirNames \ {adapters_dir} : adapters_dir' = d
  /\ UNCHANGED offstage
  /\ UNCHANGED << registry, cache_hash, rpc, pc, request, locals, vault,
                  context, outcome, trace, sentry, notifications >>

\* validate_fields, the first step of every handler
ValidateFields ==
  /\ pc = "validate"
  /\ LET missing == handle_request_field_validation(request, RequiredFields(rpc))
     IN IF missing # ""
        THEN Apply(ErrorResponse(<< Ev("validate", FALSE, missing) >>,
               handle_create_grpc_error_response(MissingText(missing), <<>>,
                 FALSE, "INVALID_ARGUMENT", FALSE, "", "ERROR", ""),
               <<>>))
        ELSE Apply(Continue(<< Ev("validate", TRUE, "") >>,
                            IF rpc = "PublishContent" THEN "decode" ELSE "run"))
  /\ UNCHANGED offstage
  /\ UNCHANGED << adapters_dir, registry, cache_hash, rpc, request, locals,
                  vault >>

(***************************************************************************)
(* PublisherService.PublishContent, one action per stage                   *)
(***************************************************************************)
\* str(None) is "None"
Str(v) == IF v = None THEN << 78, 111, 110, 101 >> ELSE v

\* a call of AdapterIPCHandler.invoke, with what the child process did
Called(proc, method) ==
  << [op |-> "invoke", ok |-> invoke(proc).raised = "" /\ invoke(proc).error = "",
      arg |-> method, proc |-> proc] >>

\* the "publication" event of handle_publication_notifications, with the SMS
\* (or its mock) that goes with it
Notification(platform_name, status, country_code, additional_data) ==
  [target |-> "publication", platform_name |-> platform_name,
   source |-> "platforms", status |-> status, country_code |-> country_code,
   additional_data |-> additional_data,
   delivery |-> IF MOCK_DELIVERY_SMS THEN "sentry" ELSE "sms"]

\* the except Exception block: its arguments read platform_info,
\* decrypted_result and decoded_payload, which are unbound when the exception
\* came from an early stage
PublishExcept(events, exc, loc) ==
  IF {"platform_info", "decrypted_result", "decoded_payload"} \subseteq loc.bound
  THEN ErrorResponse(
         events \o << Ev("except", TRUE, exc), Ev("notify", TRUE, "failed") >>,
         handle_create_grpc_error_response(exc, <<>>, TRUE, "INTERNAL", TRUE,
                                           Oops, "UNKNOWN", ""),
         << Notification(loc.platform_info.name, "failed",
                         loc.decrypted_result.country_code, None) >>)
  ELSE Escaped(events \o << Ev("except", FALSE, exc) >>, "UnboundLocalError")

\* decode_payload
PublishDecode ==
  /\ pc = "decode"
  /\ LET d == decode_content(request.content)
     IN IF d.err
        THEN /\ Apply(ErrorResponse(<< Ev("decode", FALSE, "") >>,
                  handle_create_grpc_error_response("decode error", <<>>, TRUE,
                    "INVALID_ARGUMENT", TRUE, "", "UNKNOWN",
                    "Error Decoding Platform Payload"),
                  <<>>))
             /\ locals' = locals
        ELSE /\ Apply(Continue(<< Ev("decode", TRUE, "") >>, "identify"))
             /\ locals' = [locals EXCEPT !.bound = @ \cup {"decoded_payload"},
                                         !.decoded_payload = d.result]
  /\ UNCHANGED offstage
  /\ UNCHANGED << adapters_dir, registry, cache_hash, rpc, request, vault >>

\* PublishIdentify, were a lookup that finds nothing not checked
PublishIdentifyUnchecked ==
  /\ pc = "identify"
  /\ LET platform_letter == locals.decoded_payload["platform_shortcode"]
         g == get_adapter(adapters_dir, registry, cache_hash, platform_letter)
     IN /\ registry' = g.registry
        /\ cache_hash' = g.cache_hash
        /\ IF g.raised
           THEN /\ Apply(PublishExcept(<< Ev("get_adapter", FALSE, "raised") >>,
                                       "configparser.Error", locals))
                /\ locals' = locals
           ELSE /\ Apply(Continue(<< Ev("get_adapter", TRUE, "") >>, "decrypt"))
                /\ locals' = [locals EXCEPT !.bound = @ \cup {"platform_info"},
                                            !.platform_info = g.manifest]
  /\ UNCHANGED offstage
  /\ UNCHANGED << adapters_dir, rpc, request, vault >>

\* get_platform_info
PublishIdentify ==
  /\ pc = "identify"
  /\ LET platform_letter == locals.decoded_payload["platform_shortcode"]
         g == get_adapter(adapters_dir, registry, cache_hash, platform_letter)
     IN /\ registry' = g.registry
        /\ cache_hash' = g.cache_hash
        /\ IF g.raised
           THEN /\ Apply(PublishExcept(<< Ev("get_adapter", FALSE, "raised") >>,
                                       "configparser.Error", locals))
                /\ locals' = locals
           ELSE IF ~g.found
           THEN /\ Apply(ErrorResponse(<< Ev("get_adapter", FALSE, "") >>,
                     handle_create_grpc_error_response(
                       "No platform found for shortcode", platform_letter,
                       FALSE, "INVALID_ARGUMENT", TRUE, "", "ERROR", ""),
                     <<>>))
                /\ locals' = locals
           ELSE /\ Apply(Continue(<< Ev("get_adapter", TRUE, "") >>, "decrypt"))
                /\ locals' = [locals EXCEPT !.bound = @ \cup {"platform_info"},
                                            !.platform_info = g.manifest]
  /\ UNCHANGED offstage
  /\ UNCHANGED << adapters_dir, rpc, request, vault >>

\* PublishDecrypt, were a vault answer with success=false not checked
PublishDecryptUnchecked ==
  /\ pc = "decrypt"
  /\ \E v \in DecryptAnswers :
       LET plain == b64decode(v.payload_plaintext)
       IN CASE v.kind = "rpc_error" ->
                 /\ Apply(ErrorResponse(<< Ev("decrypt", FALSE, "") >>,
                      handle_create_grpc_error_response(v.text, <<>>, FALSE,
                        VaultErrorCode, TRUE, "", "ERROR",
                        "Error Decrypting Platform Payload"),
                      <<>>))
                 /\ locals' = locals
            [] v.kind = "not_success" ->
                 /\ Apply(Continue(<< Ev("decrypt", FALSE, "") >>, "extract"))
                 /\ locals' = [locals EXCEPT
                      !.bound = @ \cup {"decrypted_result"}]
            [] OTHER ->
                 IF plain.err
                 THEN /\ Apply(PublishExcept(<< Ev("decrypt", FALSE, "raised") >>,
                                             "binascii.Error", locals))
                      /\ locals' = locals
                 ELSE /\ Apply(Continue(<< Ev("decrypt", TRUE, "") >>, "extract"))
                      /\ locals' = [locals EXCEPT
                           !.bound = @ \cup {"decrypted_result"},
                           !.decrypted_result =
                              [payload_plaintext |-> plain.bytes,
                               country_code |-> v.country_code]]
  /\ UNCHANGED offstage
  /\ UNCHANGED << adapters_dir, registry, cache_hash, rpc, request, vault >>

\* decrypt_message
PublishDecrypt ==
  /\ pc = "decrypt"
  /\ \E v \in DecryptAnswers :
       LET plain == b64decode(v.payload_plaintext)
       IN CASE v.kind = "rpc_error" ->
                 /\ Apply(ErrorResponse(<< Ev("decrypt", FALSE, "") >>,
                      handle_create_grpc_error_response(v.text, <<>>, FALSE,
                        VaultErrorCode, TRUE, "", "ERROR",
                        "Error Decrypting Platform Payload"),
                      <<>>))
                 /\ locals' = locals
            [] v.kind = "not_success" ->
                 /\ Apply(PlainResponse(<< Ev("decrypt", FALSE, "") >>,
                                        FALSE, v.text, <<>>))
                 /\ locals' = locals
            [] OTHER ->
                 IF plain.err
                 THEN /\ Apply(PublishExcept(<< Ev("decrypt", FALSE, "raised") >>,
                                             "binascii.Error", locals))
                      /\ locals' = locals
                 ELSE /\ Apply(Continue(<< Ev("decrypt", TRUE, "") >>, "extract"))
                      /\ locals' = [locals EXCEPT
                           !.bound = @ \cup {"decrypted_result"},
                           !.decrypted_result =
                              [payload_plaintext |-> plain.bytes,
                               country_code |-> v.country_code]]
  /\ UNCHANGED offstage
  /\ UNCHANGED << adapters_dir, registry, cache_hash, rpc, request, vault >>

\* the choice of extractor by the decoded version (lines 945-962); ran is
\* FALSE when no extractor is applied
ExtractByVersion(decoded_payload, service_type, payload_plaintext) ==
  IF "version" \in DOMAIN decoded_payload
  THEN IF decoded_payload["version"] = 1
       THEN [ran |-> TRUE, raised |-> FALSE,
             x |-> extract_content_v1(service_type, payload_plaintext)]
       ELSE IF decoded_payload["version"] = 2
       THEN [ran |-> TRUE, raised |-> FALSE,
             x |-> extract_content_v2(service_type, payload_plaintext)]
       ELSE [ran |-> FALSE, raised |-> FALSE,
             x |-> [error |-> NoError, parts |-> <<>>]]
  ELSE IF ~Utf8Valid(payload_plaintext)
       THEN [ran |-> FALSE, raised |-> TRUE,
             x |-> [error |-> NoError, parts |-> <<>>]]
       ELSE [ran |-> TRUE, raised |-> FALSE,
             x |-> extract_content_v0(service_type, payload_plaintext)]

PublishExtract ==
  /\ pc = "extract"
  /\ LET e == ExtractByVersion(locals.decoded_payload,
                               locals.platform_info.service_type,
                               locals.decrypted_result.payload_plaintext)
     IN IF e.raised
        THEN /\ Apply(PublishExcept(<< Ev("extract", FALSE, "raised") >>,
                                    "UnicodeDecodeError", locals))
             /\ locals' = locals
        ELSE IF ~e.ran
        THEN \* content_parts is None: list(content_parts) raises
             /\ Apply(PublishExcept(<<>>, "TypeError", locals))
             /\ locals' = locals
        ELSE IF e.x.error.kind # "none"
        THEN /\ Apply(ErrorResponse(<< Ev("extract", FALSE, "") >>,
                  handle_create_grpc_error_response(e.x.error.text, <<>>,
                    e.x.error.kind = "exc", "INVALID_ARGUMENT", TRUE, "",
                    "ERROR", ""),
                  <<>>))
             /\ locals' = locals
        ELSE /\ Apply(Continue(<< Ev("extract", TRUE, "") >>, "route"))
             /\ locals' = [locals EXCEPT !.content_parts =
                             << StripNewlines(e.x.parts[1]) >>
                             \o SubSeq(e.x.parts, 2, Len(e.x.parts))]
  /\ UNCHANGED offstage
  /\ UNCHANGED << adapters_dir, registry, cache_hash, rpc, request, vault >>

\* service handlers that accept every service type
ServiceHandlersForAll(protocol_type) ==
  {"email", "text", "message", "test"}

\* the service types a protocol's publication handler accepts
ServiceHandlers(protocol_type) ==
  CASE protocol_type = "oauth2" -> {"email", "text"}
    [] protocol_type = "pnba" -> {"message"}
    [] OTHER -> {"test"}

\* PublishRoute, were a protocol type with no handler to fall through to the
\* success response
PublishRouteFallsThrough ==
  /\ pc = "route"
  /\ LET info == locals.platform_info
         a == get_adapter_path(adapters_dir, registry, cache_hash,
                               Lower(info.name), info.protocol_type)
     IN IF info.protocol_type \notin {"oauth2", "pnba", "event"}
        THEN /\ Apply(PlainResponse(<< Ev("route", FALSE, ""), Ev("notify", TRUE, "published") >>,
                                    TRUE, "Successfully published message",
                                    << Notification(info.name, "published", locals.decrypted_result.country_code, None) >>))
             /\ UNCHANGED << registry, cache_hash, locals >>
        ELSE IF info.service_type \notin ServiceHandlers(info.protocol_type)
        THEN /\ Apply(Unimplemented(
                    << Ev("route", TRUE, info.protocol_type),
                       Ev("service_handler", FALSE, info.service_type) >>,
                    NotSupportedService))
             /\ UNCHANGED << registry, cache_hash, locals >>
        ELSE /\ registry' = a.registry
             /\ cache_hash' = a.cache_hash
             /\ IF a.raised
                THEN /\ Apply(PublishExcept(
                            << Ev("route", TRUE, info.protocol_type),
                               Ev("get_adapter_path", FALSE, "raised") >>,
                            "configparser.Error", locals))
                     /\ locals' = locals
                ELSE IF ~a.found
                THEN /\ Apply(Unimplemented(
                            << Ev("route", TRUE, info.protocol_type),
                               Ev("get_adapter_path", FALSE, "") >>,
                            NotSupportedPlatform))
                     /\ locals' = locals
                ELSE /\ Apply(Continue(
                            << Ev("route", TRUE, info.protocol_type),
                               Ev("get_adapter_path", TRUE, "") >>,
                            IF info.protocol_type = "event"
                            THEN "invoke" ELSE "token"))
                     /\ locals' = [locals EXCEPT !.adapter = a.path]
  /\ UNCHANGED offstage
  /\ UNCHANGED << adapters_dir, rpc, request, vault >>

\* the dispatch on protocol_type, and the opening of the chosen
\* handle_*_publication up to the adapter lookup
PublishRoute ==
  /\ pc = "route"
  /\ LET info == locals.platform_info
         a == get_adapter_path(adapters_dir, registry, cache_hash,
                               Lower(info.name), info.protocol_type)
     IN IF info.protocol_type \notin {"oauth2", "pnba", "event"}
        THEN \* publication_response is None: subscripting it raises
             /\ Apply(PublishExcept(<< Ev("route", FALSE, "") >>,
                                    "TypeError", locals))
             /\ UNCHANGED << registry, cache_hash, locals >>
        ELSE IF info.service_type \notin ServiceHandlers(info.protocol_type)
        THEN /\ Apply(Unimplemented(
                    << Ev("route", TRUE, info.protocol_type),
                       Ev("service_handler", FALSE, info.service_type) >>,
                    NotSupportedService))
             /\ UNCHANGED << registry, cache_hash, locals >>
        ELSE /\ registry' = a.registry
             /\ cache_hash' = a.cache_hash
             /\ IF a.raised
                THEN /\ Apply(PublishExcept(
                            << Ev("route", TRUE, info.protocol_type),
                               Ev("get_adapter_path", FALSE, "raised") >>,
                            "configparser.Error", locals))
                     /\ locals' = locals
                ELSE IF ~a.found
                THEN /\ Apply(Unimplemented(
                            << Ev("route", TRUE, info.protocol_type),
                               Ev("get_adapter_path", FALSE, "") >>,
                            NotSupportedPlatform))
                     /\ locals' = locals
                ELSE /\ Apply(Continue(
                            << Ev("route", TRUE, info.protocol_type),
                               Ev("get_adapter_path", TRUE, "") >>,
                            IF info.protocol_type = "event"
                            THEN "invoke" ELSE "token"))
                     /\ locals' = [locals EXCEPT !.adapter = a.path]
  /\ UNCHANGED offstage
  /\ UNCHANGED << adapters_dir, rpc, request, vault >>

\* get_access_token, on the oauth2 and pnba paths
PublishGetToken ==
  /\ pc = "token"
  /\ \E v \in VaultAnswers :
       CASE v.kind = "rpc_error" ->
              /\ Apply(ErrorResponse(<< Ev("get_access_token", FALSE, "") >>,
                   handle_create_grpc_error_response(v.text, <<>>, FALSE,
                     VaultErrorCode, TRUE, "", "ERROR",
                     "Error Fetching Access Token"),
                   <<>>))
              /\ locals' = locals
         [] v.kind = "not_success" ->
              /\ Apply(PlainResponse(<< Ev("get_access_token", FALSE, "") >>,
                                     FALSE, v.text, <<>>))
              /\ locals' = locals
         [] OTHER ->
              /\ vault.stored
              /\ Apply(Continue(<< Ev("get_access_token", TRUE, "") >>, "invoke"))
              /\ locals' = [locals EXCEPT !.token = vault.token]
  /\ UNCHANGED offstage
  /\ UNCHANGED << adapters_dir, registry, cache_hash, rpc, request, vault >>

\* service_handlers[service_type](content_parts) of handle_oauth2_publication
OAuth2Data(service_type, parts) ==
  IF service_type = "email"
  THEN [sender_id |-> parts[1], access_token |-> parts[7],
        refresh_token |-> parts[8]]
  ELSE [sender_id |-> parts[1], access_token |-> parts[3],
        refresh_token |-> parts[4]]

\* lines 1000-1030: the outcome notification and the response, for a
\* publication_response that carries no response of its own
PublishRespond(events, error, refresh_alert, loc) ==
  IF error # ""
  THEN ErrorResponse(
         events \o << Ev("notify", TRUE, "failed") >>,
         handle_create_grpc_error_response(error, <<>>, FALSE,
           "INVALID_ARGUMENT", TRUE, "", "ERROR", ""),
         << Notification(loc.platform_info.name, "failed",
                         loc.decrypted_result.country_code, refresh_alert) >>)
  ELSE PlainResponse(
         events \o << Ev("notify", TRUE, "published") >>,
         TRUE, "Successfully published message",
         << Notification(loc.platform_info.name, "published",
                         loc.decrypted_result.country_code, refresh_alert) >>)

\* token_data, were the in-band tokens never put over the stored ones
TokenDataAsStored(token, data, user_sent_tokens) ==
  token

\* token_data: the stored token, with the in-band pair over it when the
\* content carried both
TokenData(token, data, user_sent_tokens) ==
  IF user_sent_tokens
  THEN [token EXCEPT !.access_token = data.access_token,
                     !.refresh_token = data.refresh_token]
  ELSE token

\* OAuth2Publication, were a failed update_entity_token to fail the publish
OAuth2PublicationUpdateFails(proc, u, loc, stored) ==
  LET pipe == invoke(proc)
      data == OAuth2Data(loc.platform_info.service_type, loc.content_parts)
      user_sent_tokens == Truthy(data.access_token) /\ Truthy(data.refresh_token)
      result == pipe.result
      refreshed_token == IF result.has_token THEN result.token ELSE EmptyDict
      new_refresh_token == refreshed_token.refresh_token
      old_refresh_token == data.refresh_token
      is_refresh_token_updated == new_refresh_token # old_refresh_token
      refresh_alert ==
        IF is_refresh_token_updated /\ user_sent_tokens
        THEN b64encode(data.sender_id \o << Colon >> \o Str(new_refresh_token))
        ELSE None
      token_data == TokenData(loc.token, data, user_sent_tokens)
      called == << Called(proc, "send_message")[1] @@ ("token" :> token_data) >>
      updated == IF user_sent_tokens THEN <<>>
                 ELSE << Ev("update_token", u.kind = "ok", "") >>
  IN IF pipe.raised # ""
     THEN [x |-> PublishExcept(called, pipe.raised, loc), vault |-> stored]
     ELSE IF pipe.error # ""
     THEN [x |-> PublishRespond(called, pipe.error, None, loc), vault |-> stored]
     ELSE IF result.null
     THEN [x |-> PublishExcept(called, "AttributeError", loc), vault |-> stored]
     ELSE [x |-> PublishRespond(called \o updated,
                   IF ~user_sent_tokens /\ u.kind # "ok" THEN u.text
                   ELSE IF ~result.success THEN result.message ELSE "",
                   refresh_alert, loc),
           vault |-> IF ~user_sent_tokens /\ u.kind = "ok"
                     THEN Stored(refreshed_token) ELSE stored]

\* handle_oauth2_publication from the adapter call on (lines 696-734); u is
\* the vault's answer to update_entity_token
OAuth2Publication(proc, u, loc, stored) ==
  LET pipe == invoke(proc)
      data == OAuth2Data(loc.platform_info.service_type, loc.content_parts)
      user_sent_tokens == Truthy(data.access_token) /\ Truthy(data.refresh_token)
      result == pipe.result
      refreshed_token == IF result.has_token THEN result.token ELSE EmptyDict
      new_refresh_token == refreshed_token.refresh_token
      old_refresh_token == data.refresh_token
      is_refresh_token_updated == new_refresh_token # old_refresh_token
      refresh_alert ==
        IF is_refresh_token_updated /\ user_sent_tokens
        THEN b64encode(data.sender_id \o << Colon >> \o Str(new_refresh_token))
        ELSE None
      token_data == TokenData(loc.token, data, user_sent_tokens)
      called == << Called(proc, "send_message")[1] @@ ("token" :> token_data) >>
      updated == IF user_sent_tokens THEN <<>>
                 ELSE << Ev("update_token", u.kind = "ok", "") >>
  IN IF pipe.raised # ""
     THEN [x |-> PublishExcept(called, pipe.raised, loc), vault |-> stored]
     ELSE IF pipe.error # ""
     THEN [x |-> PublishRespond(called, pipe.error, None, loc), vault |-> stored]
     ELSE IF result.null
     THEN [x |-> PublishExcept(called, "AttributeError", loc), vault |-> stored]
     ELSE [x |-> PublishRespond(called \o updated,
                   IF ~result.success THEN result.message ELSE "",
                   refresh_alert, loc),
           vault |-> IF ~user_sent_tokens /\ u.kind = "ok"
                     THEN Stored(refreshed_token) ELSE stored]

\* PNBAPublication, were the credential written back after the send
PNBAPublicationUpdates(proc, loc, stored) ==
  LET pipe == invoke(proc)
      called == Called(proc, "send_message") \o << Ev("update_token", TRUE, "") >>
  IN IF pipe.raised # ""
     THEN [x |-> PublishExcept(called, pipe.raised, loc), vault |-> stored]
     ELSE [x |-> PublishRespond(called, pipe.error, None, loc), vault |-> stored]

\* handle_pnba_publication from the adapter call on (lines 782-796)
PNBAPublication(proc, loc, stored) ==
  LET pipe == invoke(proc)
      called == Called(proc, "send_message")
  IN IF pipe.raised # ""
     THEN [x |-> PublishExcept(called, pipe.raised, loc), vault |-> stored]
     ELSE [x |-> PublishRespond(called, pipe.error, None, loc), vault |-> stored]

\* handle_test_publication from the adapter call on (lines 826-858)
TestPublication(proc, loc, stored) ==
  LET pipe == invoke(proc)
      result == pipe.result
      called == Called(proc, "update")
  IN IF pipe.raised # ""
     THEN [x |-> PublishExcept(called, pipe.raised, loc), vault |-> stored]
     ELSE IF pipe.error # ""
     THEN [x |-> PublishRespond(called, pipe.error, None, loc), vault |-> stored]
     ELSE IF result.null
     THEN [x |-> PublishExcept(called, "AttributeError", loc), vault |-> stored]
     ELSE IF ~result.success
     THEN [x |-> ErrorResponse(called,
                   handle_create_grpc_error_response(
                     IF result.message = "" THEN "None" ELSE result.message,
                     <<>>, FALSE, "INVALID_ARGUMENT", FALSE, "", "ERROR", ""),
                   <<>>),
           vault |-> stored]
     ELSE [x |-> PlainResponse(called, TRUE, "Successfully published message",
                               <<>>),
           vault |-> stored]

\* the adapter call of the chosen publication handler, and everything after it
PublishInvoke ==
  /\ pc = "invoke"
  /\ \E proc \in ProcOutcomes : \E u \in VaultAnswers :
       LET protocol_type == locals.platform_info.protocol_type
           r == CASE protocol_type = "oauth2" ->
                       OAuth2Publication(proc, u, locals, vault)
                  [] protocol_type = "pnba" ->
                       PNBAPublication(proc, locals, vault)
                  [] OTHER -> TestPublication(proc, locals, vault)
       IN /\ Apply(r.x)
          /\ vault' = r.vault
  /\ UNCHANGED offstage
  /\ UNCHANGED << adapters_dir, registry, cache_hash, rpc, request, locals >>

(***************************************************************************)
(* The six token-lifecycle handlers, each from its adapter lookup to its   *)
(* response                                                                *)
(***************************************************************************)
\* an error response built from a vault RPC error
VaultError(events, v, error_type) ==
  ErrorResponse(events,
    handle_create_grpc_error_response(v.text, <<>>, FALSE, VaultErrorCode,
                                      FALSE, "", error_type, ""),
    <<>>)

\* if pipe.get("error"): INVALID_ARGUMENT
PipeError(events, pipe) ==
  ErrorResponse(events,
    handle_create_grpc_error_response(pipe.error, <<>>, FALSE,
      "INVALID_ARGUMENT", FALSE, "", "UNKNOWN", ""),
    <<>>)

Found == << Ev("get_adapter_path", TRUE, "") >>

\* what a handler does when its adapter lookup raised or found nothing
NoAdapter(a) ==
  IF a.raised
  THEN InternalError(<< Ev("get_adapter_path", FALSE, "raised") >>,
                     "configparser.Error")
  ELSE Unimplemented(<< Ev("get_adapter_path", FALSE, "") >>,
                     NotSupportedPlatform)

GetOAuth2AuthorizationUrlBody(a, proc, stored) ==
  LET pipe == invoke(proc)
      events == Found \o Called(proc, "get_authorization_url")
  IN IF ~a.found THEN [x |-> NoAdapter(a), vault |-> stored]
     ELSE IF pipe.raised # ""
     THEN [x |-> InternalError(events, pipe.raised), vault |-> stored]
     ELSE IF pipe.error # ""
     THEN [x |-> PipeError(events, pipe), vault |-> stored]
     ELSE IF pipe.result.null
     THEN [x |-> InternalError(events, "AttributeError"), vault |-> stored]
     ELSE \* the response is built without a success flag
          [x |-> PlainResponse(events, FALSE,
                               "Successfully generated authorization url", <<>>),
           vault |-> stored]

\* store_token of the two exchange handlers; s is the vault's answer
StoreToken(events, s, token, stored) ==
  LET ev == events \o << Ev("store_token", s.kind = "ok", "") >>
  IN CASE s.kind = "rpc_error" ->
            [x |-> VaultError(ev, s, "UNKNOWN"), vault |-> stored]
       [] s.kind = "not_success" ->
            [x |-> PlainResponse(ev, FALSE, s.text, <<>>), vault |-> stored]
       [] OTHER ->
            [x |-> PlainResponse(ev, TRUE,
                                 "Successfully fetched and stored token", <<>>),
             vault |-> Stored(token)]

ExchangeOAuth2CodeAndStoreBody(a, proc, l, s, req, stored) ==
  LET pipe == invoke(proc)
      listed == Found \o << Ev("list_tokens", l.kind # "rpc_error", "") >>
      events == listed \o Called(proc, "exchange_code_and_fetch_user_info")
      result == pipe.result
  IN IF ~a.found THEN [x |-> NoAdapter(a), vault |-> stored]
     ELSE IF l.kind = "rpc_error"
     THEN [x |-> VaultError(listed, l, "UNKNOWN"), vault |-> stored]
     ELSE IF pipe.raised # ""
     THEN [x |-> InternalError(events, pipe.raised), vault |-> stored]
     ELSE IF pipe.error # ""
     THEN [x |-> PipeError(events, pipe), vault |-> stored]
     ELSE IF result.null
     THEN [x |-> InternalError(events, "AttributeError"), vault |-> stored]
     ELSE IF req.store_on_device /\ ~result.has_token
     THEN \* token is None: token.pop raises
          [x |-> InternalError(events, "AttributeError"), vault |-> stored]
     ELSE IF ~result.has_userinfo
     THEN \* userinfo is None: userinfo.get raises
          [x |-> InternalError(events, "AttributeError"), vault |-> stored]
     ELSE StoreToken(events, s,
                     IF req.store_on_device \/ ~result.has_token
                     THEN EmptyDict ELSE result.token,
                     stored)

\* RevokeAndDeleteOAuth2Token and RevokeAndDeletePNBAToken differ in the
\* protocol and the adapter method only
RevokeAndDeleteBody(a, proc, g, d, method, stored) ==
  LET pipe == invoke(proc)
      fetched == Found \o << Ev("get_access_token", g.kind = "ok", "") >>
      events == fetched \o Called(proc, method)
      deleted == events \o << Ev("delete_token", d.kind = "ok", "") >>
  IN IF ~a.found THEN [x |-> NoAdapter(a), vault |-> stored]
     ELSE IF g.kind = "rpc_error"
     THEN [x |-> VaultError(fetched, g, "ERROR"), vault |-> stored]
     ELSE IF g.kind = "not_success"
     THEN [x |-> PlainResponse(fetched, FALSE, g.text, <<>>), vault |-> stored]
     ELSE IF pipe.raised # ""
     THEN [x |-> InternalError(events, pipe.raised), vault |-> stored]
     ELSE \* an error in the pipe is logged, and the token is deleted
          CASE d.kind = "rpc_error" ->
                 [x |-> VaultError(deleted, d, "ERROR"), vault |-> stored]
            [] d.kind = "not_success" ->
                 [x |-> PlainResponse(deleted, FALSE, d.text, <<>>),
                  vault |-> stored]
            [] OTHER ->
                 [x |-> PlainResponse(deleted, TRUE,
                                      "Successfully deleted token", <<>>),
                  vault |-> NotStored]

GetPNBACodeBody(a, proc, stored) ==
  LET pipe == invoke(proc)
      events == Found \o Called(proc, "send_authorization_code")
      result == pipe.result
  IN IF ~a.found THEN [x |-> NoAdapter(a), vault |-> stored]
     ELSE IF pipe.raised # ""
     THEN [x |-> InternalError(events, pipe.raised), vault |-> stored]
     ELSE IF pipe.error # ""
     THEN [x |-> PipeError(events, pipe), vault |-> stored]
     ELSE IF result.null
     THEN [x |-> InternalError(events, "AttributeError"), vault |-> stored]
     ELSE IF ~result.success
     THEN [x |-> ErrorResponse(events,
                   handle_create_grpc_error_response(
                     IF result.message = "" THEN "None" ELSE result.message,
                     <<>>, FALSE, "INVALID_ARGUMENT", FALSE, "", "ERROR", ""),
                   <<>>),
           vault |-> stored]
     ELSE [x |-> PlainResponse(events, TRUE, result.message, <<>>),
           vault |-> stored]

\* ExchangePNBACodeAndStoreBody, were the two-step flag not looked at
ExchangePNBACodeStoresAtOnce(a, proc, l, s, req, stored) ==
  LET pipe == invoke(proc)
      listed == Found \o << Ev("list_tokens", l.kind # "rpc_error", "") >>
      method == IF req.password # ""
                THEN "validate_password_and_fetch_user_info"
                ELSE "validate_code_and_fetch_user_info"
      events == listed \o Called(proc, method)
      result == pipe.result
  IN IF ~a.found THEN [x |-> NoAdapter(a), vault |-> stored]
     ELSE IF l.kind = "rpc_error"
     THEN [x |-> VaultError(listed, l, "UNKNOWN"), vault |-> stored]
     ELSE IF pipe.raised # ""
     THEN [x |-> InternalError(events, pipe.raised), vault |-> stored]
     ELSE IF pipe.error # ""
     THEN [x |-> PipeError(events, pipe), vault |-> stored]
     ELSE IF result.null
     THEN [x |-> InternalError(events, "AttributeError"), vault |-> stored]
     ELSE IF ~result.has_userinfo
     THEN [x |-> InternalError(events, "AttributeError"), vault |-> stored]
     ELSE StoreToken(events, s, StoredToken, stored)

ExchangePNBACodeAndStoreBody(a, proc, l, s, req, stored) ==
  LET pipe == invoke(proc)
      listed == Found \o << Ev("list_tokens", l.kind # "rpc_error", "") >>
      method == IF req.password # ""
                THEN "validate_password_and_fetch_user_info"
                ELSE "validate_code_and_fetch_user_info"
      events == listed \o Called(proc, method)
      result == pipe.result
  IN IF ~a.found THEN [x |-> NoAdapter(a), vault |-> stored]
     ELSE IF l.kind = "rpc_error"
     THEN [x |-> VaultError(listed, l, "UNKNOWN"), vault |-> stored]
     ELSE IF pipe.raised # ""
     THEN [x |-> InternalError(events, pipe.raised), vault |-> stored]
     ELSE IF pipe.error # ""
     THEN [x |-> PipeError(events, pipe), vault |-> stored]
     ELSE IF result.null
     THEN [x |-> InternalError(events, "AttributeError"), vault |-> stored]
     ELSE IF result.two_step_verification_enabled
     THEN [x |-> PlainResponse(events, TRUE,
                   "two-steps verification is enabled and a password is required",
                   <<>>),
           vault |-> stored]
     ELSE IF ~result.has_userinfo
     THEN [x |-> InternalError(events, "AttributeError"), vault |-> stored]
     ELSE StoreToken(events, s, StoredToken, stored)

\* the vault answers get_entity_access_token with a token only if it holds one
TokenAnswers == { v \in VaultAnswers : v.kind = "ok" => vault.stored }

Resolve(protocol) ==
  get_adapter_path(adapters_dir, registry, cache_hash,
                   Lower(request.platform), protocol)

\* the rest of the handler named h, after validation
Run(h, a, body) ==
  /\ pc = "run"
  /\ rpc = h
  /\ registry' = a.registry
  /\ cache_hash' = a.cache_hash
  /\ Apply(body.x)
  /\ vault' = body.vault
  /\ UNCHANGED offstage
  /\ UNCHANGED << adapters_dir, rpc, request, locals >>

GetOAuth2AuthorizationUrl ==
  \E proc \in ProcOutcomes :
    Run("GetOAuth2AuthorizationUrl", Resolve("oauth2"),
        GetOAuth2AuthorizationUrlBody(Resolve("oauth2"), proc, vault))

ExchangeOAuth2CodeAndStore ==
  \E proc \in ProcOutcomes : \E l \in VaultAnswers : \E s \in VaultAnswers :
    Run("ExchangeOAuth2CodeAndStore", Resolve("oauth2"),
        ExchangeOAuth2CodeAndStoreBody(Resolve("oauth2"), proc, l, s,
                                       request, vault))

RevokeAndDeleteOAuth2Token ==
  \E proc \in ProcOutcomes : \E g \in TokenAnswers : \E d \in VaultAnswers :
    Run("RevokeAndDeleteOAuth2Token", Resolve("oauth2"),
        RevokeAndDeleteBody(Resolve("oauth2"), proc, g, d, "revoke_token",
                            vault))

GetPNBACode ==
  \E proc \in ProcOutcomes :
    Run("GetPNBACode", Resolve("pnba"),
        GetPNBACodeBody(Resolve("pnba"), proc, vault))

ExchangePNBACodeAndStore ==
  \E proc \in ProcOutcomes : \E l \in VaultAnswers : \E s \in VaultAnswers :
    Run("ExchangePNBACodeAndStore", Resolve("pnba"),
        ExchangePNBACodeAndStoreBody(Resolve("pnba"), proc, l, s, request,
                                     vault))

RevokeAndDeletePNBAToken ==
  \E proc \in ProcOutcomes : \E g \in TokenAnswers : \E d \in VaultAnswers :
    Run("RevokeAndDeletePNBAToken", Resolve("pnba"),
        RevokeAndDeleteBody(Resolve("pnba"), proc, g, d, "invalidate_session",
                            vault))

Next ==
  \/ Receive
  \/ Return
  \/ ChangeAdaptersDir
  \/ ValidateFields
  \/ PublishDecode
  \/ PublishIdentify
  \/ PublishDecrypt
  \/ PublishExtract
  \/ PublishRoute
  \/ PublishGetToken
  \/ PublishInvoke
  \/ GetOAuth2AuthorizationUrl
  \/ ExchangeOAuth2CodeAndStore
  \/ RevokeAndDeleteOAuth2Token
  \/ GetPNBACode
  \/ ExchangePNBACodeAndStore
  \/ RevokeAndDeletePNBAToken

Spec == Init /\ [][Next]_vars

(***************************************************************************)
(* AdapterIPCHandler.invoke, step by step                                  *)
(***************************************************************************)
\* communicate(timeout=60), in seconds
Timeout == 60

\* Python values crossing the pipe
PyNone == [type |-> "NoneType", value |-> ""]

PyStr(s) == [type |-> "str", value |-> s]

PyDict(s) == [type |-> "dict", value |-> s]

PyList(s) == [type |-> "list", value |-> s]

\* the JSON documents the sample children print, with what json.loads and
\* .get("result"), .get("error") make of them; any other text is not JSON
Document(text, value, result, error) ==
  [text |-> text, value |-> value, result |-> result, error |-> error]

JsonDocuments ==
  { Document("{}", PyDict("{}"), PyNone, PyNone),
    Document("{\"result\": {\"success\": true}, \"error\": null}",
             PyDict("result,error"), PyDict("{\"success\": true}"), PyNone),
    Document("{\"error\": \"bad\"}", PyDict("error"), PyNone, PyStr("bad")),
    Document("{\"result\": {\"success\": false}, \"error\": \"bad\"}",
             PyDict("result,error"), PyDict("{\"success\": false}"),
             PyStr("bad")),
    Document("[]", PyList("[]"), PyNone, PyNone) }

\* a text is a sequence of pieces; these pieces are white space
Whitespace == { " ", "\n" }

RECURSIVE LStrip(_)
LStrip(text) ==
  IF text # << >> /\ Head(text) \in Whitespace THEN LStrip(Tail(text))
  ELSE text

RECURSIVE RStrip(_)
RStrip(text) ==
  IF text # << >> /\ text[Len(text)] \in Whitespace
  THEN RStrip(SubSeq(text, 1, Len(text) - 1))
  ELSE text

\* str.strip()
strip(text) == RStrip(LStrip(text))

\* the pieces of a text as one string
RECURSIVE Text(_)
Text(text) == IF text = << >> THEN "" ELSE Head(text) \o Text(Tail(text))

IsJson(text) == \E d \in JsonDocuments : d.text = text

json_loads(text) == CHOOSE d \in JsonDocuments : d.text = text

\* what the body of the with block ends in, once communicate has returned
Left(pending, result, error, text) ==
  [pending |-> pending, result |-> result, error |-> error, text |-> text]

\* Classify, were standard output looked at before the exit code
ClassifyStdoutFirst(returncode, stdout, stderr) ==
  IF strip(stdout) = << >>
  THEN Left("return", PyNone, PyStr("No response from adapter."), "")
  ELSE IF returncode # 0
  THEN Left("RuntimeError", PyNone, PyNone,
            "Adapter subprocess exited with error:\n" \o Text(strip(stderr)))
  ELSE IF ~IsJson(Text(strip(stdout)))
  THEN Left("return", PyNone,
            PyStr("Invalid JSON from adapter: " \o Text(strip(stdout))), "")
  ELSE LET response == json_loads(Text(strip(stdout)))
       IN  IF response.value.type # "dict"
           THEN Left("AttributeError", PyNone, PyNone,
                     "'list' object has no attribute 'get'")
           ELSE Left("return", response.result, response.error, "")

\* the body of the with block after communicate: exit code, then empty
\* output, then json.loads, then the two fields
Classify(returncode, stdout, stderr) ==
  IF returncode # 0
  THEN Left("RuntimeError", PyNone, PyNone,
            "Adapter subprocess exited with error:\n" \o Text(strip(stderr)))
  ELSE IF strip(stdout) = << >>
  THEN Left("return", PyNone, PyStr("No response from adapter."), "")
  ELSE IF ~IsJson(Text(strip(stdout)))
  THEN Left("return", PyNone,
            PyStr("Invalid JSON from adapter: " \o Text(strip(stdout))), "")
  ELSE LET response == json_loads(Text(strip(stdout)))
       IN  IF response.value.type # "dict"
           THEN Left("AttributeError", PyNone, PyNone,
                     "'list' object has no attribute 'get'")
           ELSE Left("return", response.result, response.error, "")

\* the children of the sample adapters
Stdouts ==
  { << >>, << "\n" >>, << " ", "\n" >>, << "oops", "\n" >>,
    << "Traceback", " ", "oops" >> }
    \cup { << d.text, "\n" >> : d \in JsonDocuments }

Stderrs == { << >>, << "boom", "\n" >> }

Children ==
  { Child("answers", rc, out, err) :
      rc \in { 0, 1 }, out \in Stdouts, err \in Stderrs }
    \cup { Child(b, 0, << >>, << >>) : b \in { "lingers", "hangs", "unstartable" } }

\* Popen.kill(): a signal to a child that has not been waited for, nothing
\* to one that has
Kill(p) == IF p.alive THEN [p EXCEPT !.alive = FALSE, !.killed = TRUE] ELSE p

\* invoke is called: the interpreter of the adapter's venv is looked up
InvokeCall ==
  /\ ipc.at = "idle"
  /\ \E child \in Children, python_exec \in BOOLEAN :
       /\ process' = [NoProcess EXCEPT !.child = child]
       /\ ipc' = IF python_exec THEN Call("popen", "", "pending", PyNone, PyNone, "")
                 ELSE Call("done", "FileNotFoundError", "raised", PyNone, PyNone, "FileNotFoundError: Python executable not found")
  /\ clock' = 0
  /\ UNCHANGED << service, disk, parser, threads >>

\* subprocess.Popen(...): the child starts, or Popen raises and the handler
\* of line 105 reads the name process, never bound
Popen ==
  /\ ipc.at = "popen"
  /\ IF process.child.behaviour = "unstartable"
     THEN /\ ipc' = Call("done", "UnboundLocalError", "raised", PyNone, PyNone, "UnboundLocalError: process")
          /\ UNCHANGED process
     ELSE /\ ipc' = [ipc EXCEPT !.at = "communicate"]
          /\ process' = [process EXCEPT !.spawned = TRUE, !.alive = TRUE, !.pipes_open = TRUE]
  /\ UNCHANGED << clock, service, disk, parser, threads >>

\* a second passes inside communicate
Tick ==
  /\ ipc.at = "communicate"
  /\ clock < Timeout
  /\ clock' = clock + 1
  /\ UNCHANGED << process, ipc, service, disk, parser, threads >>

\* the child ends by itself
ChildExits ==
  /\ process.alive
  /\ \/ process.child.behaviour = "answers"
     \/ process.child.behaviour = "lingers" /\ ~process.pipes_open
  /\ process' = [process EXCEPT !.alive = FALSE]
  /\ UNCHANGED << ipc, clock, service, disk, parser, threads >>

\* communicate returns the output of a child that has ended, and the body
\* of the with block runs to its return or raise
CommunicateReturns ==
  /\ ipc.at = "communicate"
  /\ ~process.alive
  /\ LET left == Classify(process.child.returncode, process.child.stdout, process.child.stderr)
     IN  ipc' = Call("exit", left.pending, "pending", left.result, left.error, left.text)
  /\ UNCHANGED << process, clock, service, disk, parser, threads >>

\* communicate gives up on a child still running
CommunicateTimesOut ==
  /\ ipc.at = "communicate"
  /\ process.alive
  /\ clock = Timeout
  /\ ipc' = Call("exit", "TimeoutExpired", "pending", PyNone, PyNone, "")
  /\ UNCHANGED << process, clock, service, disk, parser, threads >>

\* Popen.__exit__ closes the pipes ...
ClosePipes ==
  /\ ipc.at = "exit"
  /\ process' = [process EXCEPT !.pipes_open = FALSE]
  /\ ipc' = [ipc EXCEPT !.at = "wait"]
  /\ UNCHANGED << clock, service, disk, parser, threads >>

\* ... and waits, with no timeout, for the child to end; then the value is
\* returned or the exception reaches the handlers of lines 101-107
Wait ==
  /\ ipc.at = "wait"
  /\ ~process.alive
  /\ process' = IF ipc.pending = "return" THEN process ELSE Kill(process)
  /\ ipc' = CASE ipc.pending = "return" ->
                   [ipc EXCEPT !.at = "done", !.state = "returned"]
              [] ipc.pending = "TimeoutExpired" ->
                   [ipc EXCEPT !.at = "done", !.state = "raised", !.text = "RuntimeError: Adapter invocation timed out."]
              [] OTHER ->
                   [ipc EXCEPT !.at = "done", !.state = "raised", !.text = ipc.pending \o ": " \o ipc.text]
  /\ UNCHANGED << clock, service, disk, parser, threads >>

\* the caller has the outcome
InvokeReturn ==
  /\ ipc.at = "done"
  /\ process' = NoProcess
  /\ ipc' = NoCall
  /\ clock' = 0
  /\ UNCHANGED << service, disk, parser, threads >>

InvokeNext ==
  \/ InvokeCall
  \/ Popen
  \/ Tick
  \/ ChildExits
  \/ CommunicateReturns
  \/ CommunicateTimesOut
  \/ ClosePipes
  \/ Wait
  \/ InvokeReturn

\* the interpreter runs the call's steps as long as one can be taken; a
\* child that answers ends
InvokeSpec == Init /\ [][InvokeNext]_vars /\ WF_vars(InvokeNext)

(***************************************************************************)
(* platforms/adapter_manager.py: the maintenance calls, on a directory     *)
(* they write                                                              *)
(***************************************************************************)
\* _calculate_directory_hash over a listing: the digest of the names and
\* contents walked
RECURSIVE Digest(_)
Digest(listing) ==
  IF listing = << >> THEN "md5:"
  ELSE Digest(SubSeq(listing, 1, Len(listing) - 1)) \o listing[Len(listing)].dir \o "=" \o listing[Len(listing)].state \o "/" \o listing[Len(listing)].manifest.name \o "/" \o listing[Len(listing)].manifest.protocol_type \o (IF listing[Len(listing)].files THEN "" ELSE "-") \o ";"

\* os.path.exists(os.path.join(adapters_dir, name))
Exists(listing, name) == \E i \in 1..Len(listing) : listing[i].dir = name

\* shutil.rmtree of the directory name
Rmtree(listing, name) == SelectSeq(listing, LAMBDA e : e.dir # name)

\* Populate, were every call to rescan
PopulateAlways(listing, reg, hash) ==
  LET l == LoadAdapters(listing, 1, << >>)
  IN  [raised |-> l.raised, registry |-> l.registry, cache_hash |-> Digest(listing), rescanned |-> TRUE]

\* _populate_registry over the listing of the adapters directory
Populate(listing, reg, hash) ==
  IF hash = Digest(listing)
  THEN [raised |-> FALSE, registry |-> reg, cache_hash |-> hash, rescanned |-> FALSE]
  ELSE LET l == LoadAdapters(listing, 1, << >>)
       IN  [raised |-> l.raised, registry |-> l.registry, cache_hash |-> Digest(listing), rescanned |-> TRUE]

\* a repository to clone: its name, whether manifest.ini, main.py and
\* config.ini are all there, its manifest.ini ("ok", "invalid": no [platform]
\* section or an empty one, "corrupt": configparser raises), whether it has a
\* requirements.txt and whether pip can install it
Repository(repo_name, files, manifest_state, manifest, requirements, installs) ==
  [repo_name |-> repo_name, files |-> files, manifest_state |-> manifest_state,
   manifest |-> manifest, requirements |-> requirements, installs |-> installs]

Nameless == Manifest("", << 120 >>, "oauth2", "text")

\* another adapter whose manifest gives gmail's shortcode
Mail == Manifest("mail", << 103 >>, "smtp", "email")

\* one repository that installs, and one for each way of not installing
Repositories ==
  { Repository("relay-adapter", TRUE, "ok", Twitter, TRUE, TRUE),
    Repository("relay-adapter", TRUE, "ok", Twitter, FALSE, TRUE),
    Repository("relay-adapter", FALSE, "ok", Twitter, TRUE, TRUE),
    Repository("relay-adapter", TRUE, "invalid", NoManifest, TRUE, TRUE),
    Repository("relay-adapter", TRUE, "corrupt", NoManifest, TRUE, TRUE),
    Repository("relay-adapter", TRUE, "ok", Nameless, TRUE, TRUE),
    Repository("relay-adapter", TRUE, "ok", Gmail, TRUE, TRUE),
    Repository("relay-adapter", TRUE, "ok", Twitter, TRUE, FALSE),
    Repository("relay-mail", TRUE, "ok", Mail, FALSE, TRUE),
    Repository("twitter_oauth2", TRUE, "ok", Twitter, TRUE, TRUE) }

\* f"{adapter_name}_{protocol}".lower() as a directory name
NewDirName(manifest) ==
  Lower(manifest.name) \o "_" \o Lower(manifest.protocol_type)

\* how add_adapter_from_github leaves the two directories
Added(adapters, venvs, raised, fetched) ==
  [adapters |-> adapters, venvs |-> venvs, raised |-> raised, fetched |-> fetched]

\* add_adapter_from_github, were the clone moved over an adapter of the same
\* canonical name
AddAdapterOverwrites(root, venvs, repo) ==
  LET dest == DirEntry(repo.repo_name, repo.manifest_state, repo.manifest)
      cloned == Append(root, dest)
      new_dir_name == NewDirName(repo.manifest)
      renamed == Append(root, [dest EXCEPT !.dir = new_dir_name])
  IN  IF Exists(root, repo.repo_name)
      THEN Added(root, venvs, "", FALSE)
      ELSE IF ~repo.files
      THEN Added(Rmtree(cloned, repo.repo_name), venvs, "ValueError: Invalid adapter structure", TRUE)
      ELSE IF repo.manifest_state = "corrupt"
      THEN Added(cloned, venvs, "configparser.Error", TRUE)
      ELSE IF repo.manifest_state = "invalid"
      THEN Added(Rmtree(cloned, repo.repo_name), venvs, "ValueError: Manifest load failed", TRUE)
      ELSE IF repo.manifest.name = ""
      THEN Added(Rmtree(cloned, repo.repo_name), venvs, "ValueError: Adapter manifest missing 'name'.", TRUE)
      ELSE IF Exists(cloned, new_dir_name)
      THEN Added(Append(Rmtree(root, new_dir_name), [dest EXCEPT !.dir = new_dir_name]), venvs, "", TRUE)
      ELSE IF ~repo.requirements
      THEN Added(renamed, venvs, "", TRUE)
      ELSE IF new_dir_name \in venvs
      THEN Added(renamed, venvs, "ValueError: Virtual environment already exists", TRUE)
      ELSE IF ~repo.installs
      THEN Added(Rmtree(renamed, new_dir_name), (venvs \cup { new_dir_name }) \ { new_dir_name }, "ValueError: Adapter dependency installation failed.", TRUE)
      ELSE Added(renamed, venvs \cup { new_dir_name }, "", TRUE)

add_adapter_from_github(root, venvs, repo) ==
  LET dest == DirEntry(repo.repo_name, repo.manifest_state, repo.manifest)
      cloned == Append(root, dest)
      new_dir_name == NewDirName(repo.manifest)
      renamed == Append(root, [dest EXCEPT !.dir = new_dir_name])
  IN  IF Exists(root, repo.repo_name)
      THEN Added(root, venvs, "", FALSE)
      ELSE IF ~repo.files
      THEN Added(Rmtree(cloned, repo.repo_name), venvs, "ValueError: Invalid adapter structure", TRUE)
      ELSE IF repo.manifest_state = "corrupt"
      THEN Added(cloned, venvs, "configparser.Error", TRUE)
      ELSE IF repo.manifest_state = "invalid"
      THEN Added(Rmtree(cloned, repo.repo_name), venvs, "ValueError: Manifest load failed", TRUE)
      ELSE IF repo.manifest.name = ""
      THEN Added(Rmtree(cloned, repo.repo_name), venvs, "ValueError: Adapter manifest missing 'name'.", TRUE)
      ELSE IF Exists(cloned, new_dir_name)
      THEN Added(Rmtree(cloned, repo.repo_name), venvs, "ValueError: Adapter already exists.", TRUE)
      ELSE IF ~repo.requirements
      THEN Added(renamed, venvs, "", TRUE)
      ELSE IF new_dir_name \in venvs
      THEN Added(renamed, venvs, "ValueError: Virtual environment already exists", TRUE)
      ELSE IF ~repo.installs
      THEN Added(Rmtree(renamed, new_dir_name), (venvs \cup { new_dir_name }) \ { new_dir_name }, "ValueError: Adapter dependency installation failed.", TRUE)
      ELSE Added(renamed, venvs \cup { new_dir_name }, "", TRUE)

\* remove_adapter, were the registry not consulted: the directories named
\* by the key go
RemoveUnchecked(root, venvs, reg, hash, name) ==
  LET p == Populate(root, reg, hash)
      path == name[1] \o "_" \o name[2]
  IN  [raised |-> "", registry |-> p.registry, cache_hash |-> p.cache_hash, rescanned |-> p.rescanned, adapters |-> Rmtree(root, path), venvs |-> venvs \ { path }]

\* remove_adapter(name), name a registry key
remove_adapter(root, venvs, reg, hash, name) ==
  LET p == Populate(root, reg, hash)
      kept == [raised |-> "", registry |-> p.registry, cache_hash |-> p.cache_hash, rescanned |-> p.rescanned, adapters |-> root, venvs |-> venvs]
  IN  IF p.raised
      THEN [kept EXCEPT !.raised = "configparser.Error"]
      ELSE IF name \notin DOMAIN p.registry
      THEN [kept EXCEPT !.raised = "ValueError: Adapter does not exist."]
      ELSE LET adapter_path == p.registry[name].path
           IN  [kept EXCEPT !.adapters = Rmtree(root, adapter_path), !.venvs = venvs \ { adapter_path }]

\* what git pull brings and what is asked of update_adapter: whether the
\* pull works, whether the revision pulled still has main.py and config.ini,
\* whether dependencies are reinstalled (install is asked for and the
\* revision has a requirements.txt) and whether pip can
Revision(pulls, files, install, installs) ==
  [pulls |-> pulls, files |-> files, install |-> install, installs |-> installs]

Revisions ==
  { Revision(FALSE, TRUE, FALSE, TRUE),
    Revision(TRUE, TRUE, FALSE, TRUE),
    Revision(TRUE, FALSE, FALSE, TRUE),
    Revision(TRUE, TRUE, TRUE, TRUE),
    Revision(TRUE, TRUE, TRUE, FALSE) }

\* update_adapter(name, install), name a registry key: the adapter's
\* directory takes the revision pulled, which nothing validates
update_adapter(root, venvs, reg, hash, name, rev) ==
  LET p == Populate(root, reg, hash)
      kept == [raised |-> "", registry |-> p.registry, cache_hash |-> p.cache_hash, rescanned |-> p.rescanned, adapters |-> root, venvs |-> venvs]
  IN  IF p.raised
      THEN [kept EXCEPT !.raised = "configparser.Error"]
      ELSE IF name \notin DOMAIN p.registry
      THEN [kept EXCEPT !.raised = "ValueError: Adapter does not exist."]
      ELSE IF ~rev.pulls
      THEN [kept EXCEPT !.raised = "ValueError: Failed to update adapter."]
      ELSE LET adapter_path == p.registry[name].path
               pulled == [i \in 1..Len(root) |-> IF root[i].dir = adapter_path THEN [root[i] EXCEPT !.files = rev.files] ELSE root[i]]
           IN  IF ~rev.install
               THEN [kept EXCEPT !.adapters = pulled]
               ELSE [kept EXCEPT !.adapters = pulled, !.venvs = venvs \cup { adapter_path },
                                 !.raised = IF rev.installs THEN "" ELSE "ValueError: Failed to reinstall dependencies."]

\* the two directories and the registry as a call finds them
Before ==
  [adapters |-> adapters_root, venvs |-> venv_root, registry |-> registry, cache_hash |-> cache_hash]

\* the names remove_adapter is called with
Names ==
  { RegistryKey(m.name, m.protocol_type) : m \in { Gmail, Telegram, Twitter, Mail } }

\* the venv directory may hold a directory no installed adapter owns
VenvRoots ==
  { { "gmail_oauth2", "telegram_pnba" },
    { "gmail_oauth2", "telegram_pnba", "twitter_oauth2" } }

AddAdapterFromGithub ==
  /\ \E repo \in Repositories :
       LET a == add_adapter_from_github(adapters_root, venv_root, repo)
           key == RegistryKey(repo.manifest.name, repo.manifest.protocol_type)
       IN  /\ adapters_root' = a.adapters
           /\ venv_root' = a.venvs
           /\ manager' = Operation("add", a.raised, a.fetched, FALSE, Before, IF a.raised = "" /\ a.fetched THEN manager.removed \ { key } ELSE manager.removed)
  /\ UNCHANGED << service, channel, parser, threads >>

RemoveAdapter ==
  /\ \E name \in Names :
       LET r == remove_adapter(adapters_root, venv_root, registry, cache_hash, name)
       IN  /\ adapters_root' = r.adapters
           /\ venv_root' = r.venvs
           /\ registry' = r.registry
           /\ cache_hash' = r.cache_hash
           /\ manager' = Operation("remove", r.raised, FALSE, r.rescanned, Before @@ ("name" :> name), IF r.raised = "" THEN manager.removed \cup { name } ELSE manager.removed)
  /\ UNCHANGED << adapters_dir, rpc, pc, request, locals, vault, context, outcome, trace, sentry, notifications >>
  /\ UNCHANGED << channel, parser, threads >>

UpdateAdapter ==
  /\ \E name \in Names, rev \in Revisions :
       LET r == update_adapter(adapters_root, venv_root, registry, cache_hash, name, rev)
       IN  /\ adapters_root' = r.adapters
           /\ venv_root' = r.venvs
           /\ registry' = r.registry
           /\ cache_hash' = r.cache_hash
           /\ manager' = Operation("update", r.raised, FALSE, r.rescanned, Before @@ ("name" :> name), manager.removed)
  /\ UNCHANGED << adapters_dir, rpc, pc, request, locals, vault, context, outcome, trace, sentry, notifications >>
  /\ UNCHANGED << channel, parser, threads >>

\* a lookup (get_adapter, get_adapter_path) calls _populate_registry
PopulateRegistry ==
  /\ LET p == Populate(adapters_root, registry, cache_hash)
     IN  /\ registry' = p.registry
         /\ cache_hash' = p.cache_hash
         /\ manager' = Operation("populate", IF p.raised THEN "configparser.Error" ELSE "", FALSE, p.rescanned, Before, manager.removed)
  /\ UNCHANGED << adapters_root, venv_root >>
  /\ UNCHANGED << adapters_dir, rpc, pc, request, locals, vault, context, outcome, trace, sentry, notifications >>
  /\ UNCHANGED << channel, parser, threads >>

ManagerInit ==
  /\ ServiceInit
  /\ adapters_dir = "all"
  /\ ChannelInit
  /\ adapters_root = Installed
  /\ venv_root \in VenvRoots
  /\ manager = NoOperation
  /\ payload = << >>
  /\ decoded = NotDecoded
  /\ threads = NoLookups

ManagerNext ==
  \/ AddAdapterFromGithub
  \/ RemoveAdapter
  \/ PopulateRegistry

ManagerSpec == ManagerInit /\ [][ManagerNext]_vars

\* the installed adapters kept up to date: update, remove and lookups
UpdateNext ==
  \/ UpdateAdapter
  \/ RemoveAdapter
  \/ PopulateRegistry

UpdateSpec == ManagerInit /\ [][UpdateNext]_vars

(***************************************************************************)
(* content_parser on byte buffers: each function applied to a buffer as    *)
(* it is handed in                                                         *)
(***************************************************************************)
\* the longest run of bytes after a buffer's first four
MaxTail == 3

\* struct.pack("<i", n): two's complement, \div rounding down
Int32LE(n) ==
  << n % 256, (n \div 256) % 256, (n \div 65536) % 256, (n \div 16777216) % 256 >>

\* the bytes buffers are made of: two ASCII, one not
SampleBytes == { 1, 103, 200 }

RECURSIVE BytesUpTo(_)
BytesUpTo(n) ==
  IF n = 0 THEN { << >> }
  ELSE BytesUpTo(n - 1) \cup { Append(b, x) : b \in { t \in BytesUpTo(n - 1) : Len(t) = n - 1 }, x \in SampleBytes }

\* first fours: lengths 0, 1, 2, a length past the buffer, two negative
\* ones, and a tagged header (tag 2, one byte of ciphertext, one of device
\* id) that read as a length is past the buffer
Heads ==
  { Int32LE(0), Int32LE(1), Int32LE(2), Int32LE(256), Int32LE(-1), Int32LE(-2147483647), << 2, 1, 0, 1 >> }

\* buffers shorter than five bytes, and the heads with every tail
Payloads ==
  { SubSeq(h, 1, n) : h \in Heads, n \in 0..4 }
    \cup { h \o t : h \in Heads, t \in BytesUpTo(MaxTail) }

\* the colon-delimited contents: n parts, each one letter or each empty
RECURSIVE Delimited(_, _)
Delimited(n, filled) ==
  IF n = 1 THEN (IF filled THEN << 97 >> ELSE << >>)
  ELSE Delimited(n - 1, filled) \o << Colon >> \o (IF filled THEN << 96 + n >> ELSE << >>)

\* struct.pack of a length prefix, "<B" or "<H"
PackLength(fmt, n) == IF fmt = "<B" THEN << n >> ELSE << n % 256, n \div 256 >>

\* the packed record of extract_content_v1 / v2: the eight length prefixes
\* of the layout, then the fields, field i being lengths[i] times letter i
RECURSIVE PackRecord(_, _, _)
PackRecord(parsers, lengths, i) ==
  IF i > 16 THEN << >>
  ELSE (IF i <= 8 THEN PackLength(parsers[i].fmt, lengths[i])
        ELSE [k \in 1..lengths[i - 8] |-> 96 + i - 8])
       \o PackRecord(parsers, lengths, i + 1)

\* every combination of empty and one-letter fields, in both layouts
Records ==
  { PackRecord(ContentParsers(fmt), lengths, 1) :
      fmt \in { "<B", "<H" }, lengths \in [1..8 -> { 0, 1 }] }

ServiceTypes == { "email", "text", "message", "test", "voice" }

\* extract_content_v0 / v1 / v2 of the buffer
ExtractContent ==
  /\ decoded = NotDecoded
  /\ \E version \in 0..2, service_type \in ServiceTypes :
       decoded' = [by |-> "extract_content", version |-> version, service_type |-> service_type,
                   out |-> CASE version = 0 -> extract_content_v0(service_type, payload)
                             [] version = 1 -> extract_content_v1(service_type, payload)
                             [] OTHER -> extract_content_v2(service_type, payload)]
  /\ UNCHANGED << payload, service, channel, disk, threads >>

IsV0Payload ==
  /\ decoded = NotDecoded
  /\ decoded' = [by |-> "is_v0_payload", value |-> is_v0_payload(payload)]
  /\ UNCHANGED << payload, service, channel, disk, threads >>

\* decode_content of the buffer's base64 text
DecodeContent ==
  /\ decoded = NotDecoded
  /\ decoded' = [by |-> "decode_content", out |-> decode_content(b64encode(payload))]
  /\ UNCHANGED << payload, service, channel, disk, threads >>

DecodeV0 ==
  /\ decoded = NotDecoded
  /\ decoded' = [by |-> "decode_v0", out |-> decode_v0(payload)]
  /\ UNCHANGED << payload, service, channel, disk, threads >>

DecodeV1 ==
  /\ decoded = NotDecoded
  /\ decoded' = [by |-> "decode_v1", out |-> decode_v1(payload)]
  /\ UNCHANGED << payload, service, channel, disk, threads >>

ParserInit ==
  /\ ServiceInit
  /\ adapters_dir = "all"
  /\ ChannelInit
  /\ adapters_root = Installed
  /\ venv_root = { "gmail_oauth2", "telegram_pnba" }
  /\ manager = NoOperation
  /\ payload \in Payloads \cup Records \cup { Delimited(n, filled) : n \in 1..10, filled \in BOOLEAN }
  /\ decoded = NotDecoded
  /\ threads = NoLookups

ParserNext ==
  \/ IsV0Payload
  \/ DecodeContent
  \/ DecodeV0
  \/ DecodeV1
  \/ ExtractContent

ParserSpec == ParserInit /\ [][ParserNext]_vars

(***************************************************************************)
(* AdapterManager's registry under the server's worker threads: each call  *)
(* of get_adapter / get_adapter_path is a sequence of steps on the class's *)
(* _registry and _cache_hash, which no lock guards, while the adapters     *)
(* directory is changed from outside (the CLI)                             *)
(***************************************************************************)
\* the directories the CLI moves the adapters directory between; a manifest
\* configparser cannot read is ManagerSpec's matter
ServedDirs == { "all", "few" }

\* the adapter has a directory with a loadable manifest
OnDisk(d, adapter) ==
  \E i \in 1..Len(DirListing(d)) :
    DirListing(d)[i].state = "ok" /\ DirListing(d)[i].manifest = adapter

\* the thread moves on
Step(t, lookup) == threads' = [threads EXCEPT ![t] = lookup]

At(t, at) == [threads[t] EXCEPT !.at = at]

\* a request handler calls get_adapter(shortcode) or get_adapter_path(name, protocol)
GetAdapter(t) ==
  /\ threads[t].at = "idle"
  /\ cache_hash # "None"
  /\ \E method \in { "get_adapter", "get_adapter_path" }, adapter \in { Gmail, Reliability } :
       Step(t, Lookup("hash", method, adapter, "", << >>, 0, "", OnDisk(adapters_dir, adapter)))
  /\ UNCHANGED << service, channel, disk, parser >>

\* current_hash = cls._calculate_directory_hash()
CalculateDirectoryHash(t) ==
  /\ threads[t].at = "hash"
  /\ Step(t, [At(t, "outdated") EXCEPT !.current_hash = calculate_directory_hash(adapters_dir)])
  /\ UNCHANGED << service, channel, disk, parser >>

\* if cls._cache_hash != current_hash: cls._cache_hash = current_hash
IsRegistryOutdated(t) ==
  /\ threads[t].at = "outdated"
  /\ IF cache_hash # threads[t].current_hash
     THEN /\ cache_hash' = threads[t].current_hash
          /\ Step(t, At(t, "clear"))
     ELSE /\ UNCHANGED cache_hash
          /\ Step(t, At(t, "lookup"))
  /\ UNCHANGED << adapters_dir, registry, rpc, pc, request, locals, vault, context, outcome, trace, sentry, notifications >>
  /\ UNCHANGED << channel, disk, parser >>

\* cls._registry.clear()
RegistryClear(t) ==
  /\ threads[t].at = "clear"
  /\ registry' = << >>
  /\ Step(t, At(t, "listdir"))
  /\ UNCHANGED << adapters_dir, cache_hash, rpc, pc, request, locals, vault, context, outcome, trace, sentry, notifications >>
  /\ UNCHANGED << channel, disk, parser >>

\* os.listdir(cls._adapters_dir)
Listdir(t) ==
  /\ threads[t].at = "listdir"
  /\ Step(t, [At(t, "load") EXCEPT !.items = DirListing(adapters_dir)])
  /\ UNCHANGED << service, channel, disk, parser >>

\* one turn of the loop of _populate_registry: cls._registry[key] = manifest_data
LoadItem(t) ==
  /\ threads[t].at = "load"
  /\ threads[t].items # << >>
  /\ LET l == LoadAdapters(<< Head(threads[t].items) >>, 1, registry)
     IN  /\ registry' = l.registry
         /\ Step(t, IF l.raised
                    THEN [At(t, "done") EXCEPT !.result = "configparser.Error"]
                    ELSE [threads[t] EXCEPT !.items = Tail(@)])
  /\ UNCHANGED << adapters_dir, cache_hash, rpc, pc, request, locals, vault, context, outcome, trace, sentry, notifications >>
  /\ UNCHANGED << channel, disk, parser >>

\* the loop is over
Loaded(t) ==
  /\ threads[t].at = "load"
  /\ threads[t].items = << >>
  /\ Step(t, At(t, "lookup"))
  /\ UNCHANGED << service, channel, disk, parser >>

\* get_adapter_path: cls._registry.get(f"{name}_{protocol}".lower())
RegistryGet(t) ==
  /\ threads[t].at = "lookup"
  /\ threads[t].method = "get_adapter_path"
  /\ LET key == RegistryKey(threads[t].adapter.name, threads[t].adapter.protocol_type)
     IN  Step(t, [At(t, "done") EXCEPT !.result = IF key \in DOMAIN registry THEN "found" ELSE "not found"])
  /\ UNCHANGED << service, channel, disk, parser >>

\* get_adapter: the iterator over cls._registry.values() is made
RegistryValues(t) ==
  /\ threads[t].at = "lookup"
  /\ threads[t].method = "get_adapter"
  /\ Step(t, [At(t, "iterate") EXCEPT !.size = Cardinality(DOMAIN registry)])
  /\ UNCHANGED << service, channel, disk, parser >>

\* get_adapter: the for loop runs; a dict whose size is not the iterator's
\* makes it raise RuntimeError (dictionary changed size during iteration)
RegistryIterate(t) ==
  /\ threads[t].at = "iterate"
  /\ Step(t, [At(t, "done") EXCEPT !.result =
               IF Cardinality(DOMAIN registry) # threads[t].size THEN "RuntimeError"
               ELSE IF \E k \in DOMAIN registry : registry[k].shortcode = threads[t].adapter.shortcode
               THEN "found" ELSE "not found"])
  /\ UNCHANGED << service, channel, disk, parser >>

\* the call is over and the worker takes its next request
LookupReturns(t) ==
  /\ threads[t].at = "done"
  /\ Step(t, NoLookup)
  /\ UNCHANGED << service, channel, disk, parser >>

\* the CLI adds or removes adapters while the server runs
DirectoryChanges ==
  /\ \E d \in ServedDirs \ { adapters_dir } :
       /\ adapters_dir' = d
       /\ threads' = [t \in Threads |->
                        [threads[t] EXCEPT !.on_disk = @ /\ OnDisk(d, threads[t].adapter)]]
  /\ UNCHANGED << registry, cache_hash, rpc, pc, request, locals, vault, context, outcome, trace, sentry, notifications >>
  /\ UNCHANGED << channel, disk, parser >>

\* the lookups followed are those made once serve() has populated the registry
ThreadsInit ==
  /\ ServiceInit
  /\ adapters_dir \in ServedDirs
  /\ ChannelInit
  /\ adapters_root = Installed
  /\ venv_root = { "gmail_oauth2", "telegram_pnba" }
  /\ manager = NoOperation
  /\ payload = << >>
  /\ decoded = NotDecoded
  /\ threads = NoLookups

ServerStarts ==
  /\ cache_hash = "None"
  /\ \A t \in Threads : threads[t] = NoLookup
  /\ LET p == populate_registry(adapters_dir, registry, cache_hash)
     IN  /\ registry' = p.registry
         /\ cache_hash' = p.cache_hash
  /\ UNCHANGED << adapters_dir, rpc, pc, request, locals, vault, context, outcome, trace, sentry, notifications >>
  /\ UNCHANGED offstage

ThreadsNext ==
  \/ ServerStarts
  \/ DirectoryChanges
  \/ \E t \in Threads :
       \/ GetAdapter(t)
       \/ CalculateDirectoryHash(t)
       \/ IsRegistryOutdated(t)
       \/ RegistryClear(t)
       \/ Listdir(t)
       \/ LoadItem(t)
       \/ Loaded(t)
       \/ RegistryGet(t)
       \/ RegistryValues(t)
       \/ RegistryIterate(t)
       \/ LookupReturns(t)

ThreadsSpec == ThreadsInit /\ [][ThreadsNext]_vars

(***************************************************************************)
(* Properties                                                              *)
(***************************************************************************)
Did(op) == \E i \in 1..Len(trace) : trace[i].op = op

Succeeded(op) == \E i \in 1..Len(trace) : trace[i].op = op /\ trace[i].ok

Returned == pc = "done" /\ outcome.state = "returned"

\* the stages of PublishContent, by the call each one makes
Stages ==
  << "validate", "decode", "get_adapter", "decrypt", "extract", "route",
     "invoke" >>

\* C1: within one PublishContent request the stages run in the order
\* validate, decode, identify, decrypt, extract, route, adapter call, none
\* twice, and a stage runs only after the stage before it succeeded; so
\* decrypt is not called after a failed decode or lookup, and no adapter is
\* called unless decrypt and extraction succeeded.
C1_StagesInOrder ==
  rpc = "PublishContent" =>
    /\ \A i \in 1..Len(trace) : \A j \in 1..Len(trace) :
         (i # j /\ trace[i].op = trace[j].op)
           => \A k \in 1..Len(Stages) : trace[i].op # Stages[k]
    /\ \A i \in 1..Len(trace) : \A k \in 2..Len(Stages) :
         trace[i].op = Stages[k]
           => \E j \in 1..(i - 1) :
                trace[j].op = Stages[k - 1] /\ trace[j].ok
    /\ Did("invoke") => Succeeded("decrypt") /\ Succeeded("extract")
    /\ Did("decrypt") => Succeeded("decode") /\ Succeeded("get_adapter")

\* a request that ran every stage up to the adapter call
C1_Witness ==
  /\ rpc = "PublishContent"
  /\ pc = "done"
  /\ Did("invoke")
  /\ Succeeded("route")

\* C2: PublishContent answers success=true or dispatches a 'published'
\* notification only if the adapter call of the request returned no error
\* and a result that reports success.
C2_SuccessOnlyIfAdapterSucceeded ==
  (/\ rpc = "PublishContent"
   /\ pc = "done"
   /\ \/ outcome.state = "returned" /\ outcome.success
      \/ \E n \in 1..Len(notifications) : notifications[n].status = "published")
  => \E i \in 1..Len(trace) :
       /\ trace[i].op = "invoke"
       /\ trace[i].proc.kind = "json"
       /\ trace[i].proc.error = ""
       /\ ~trace[i].proc.result.null
       /\ trace[i].proc.result.success

\* C3: every PublishContent request that ends in failure, at whatever stage,
\* has dispatched a notification with status 'failed'.
C3_FailureNotifies ==
  (/\ rpc = "PublishContent"
   /\ pc = "done"
   /\ ~(outcome.state = "returned" /\ outcome.success))
  => \E n \in 1..Len(notifications) : notifications[n].status = "failed"

\* C4: when PublishContent returns success=true, exactly one 'published'
\* publication event has been dispatched, with the platform name, the source
\* 'platforms' and the country code of the decrypt step.
C4_SuccessNotifiesOnce ==
  (rpc = "PublishContent" /\ Returned /\ outcome.success)
  => /\ Cardinality({ n \in 1..Len(notifications) :
                        notifications[n].status = "published" }) = 1
     /\ \A n \in 1..Len(notifications) :
          notifications[n].status = "published"
            => /\ notifications[n].target = "publication"
               /\ notifications[n].platform_name = locals.platform_info.name
               /\ notifications[n].source = "platforms"
               /\ notifications[n].country_code
                    = locals.decrypted_result.country_code

\* C5: an unexpected exception at any stage of PublishContent after the
\* validation ends in a response with status INTERNAL and the generic
\* message, and the exception is captured by Sentry.
C5_ExceptionIsInternal ==
  (rpc = "PublishContent" /\ pc = "done" /\ Did("except"))
  => /\ outcome.state = "returned"
     /\ ~outcome.success
     /\ context.code = "INTERNAL"
     /\ context.details = Details("", Oops, <<>>)
     /\ \E n \in 1..Len(sentry) : sentry[n].capture = "exception"

\* the protocol a handler asks the registry for
ProtocolOf(h) ==
  CASE h \in { "GetOAuth2AuthorizationUrl", "ExchangeOAuth2CodeAndStore",
               "RevokeAndDeleteOAuth2Token" } -> "oauth2"
    [] h \in { "GetPNBACode", "ExchangePNBACodeAndStore",
               "RevokeAndDeletePNBAToken" } -> "pnba"
    [] OTHER -> locals.platform_info.protocol_type

\* the lookup by (platform, protocol) completed and the registry has no such
\* adapter
NoAdapterForPair ==
  /\ \E i \in 1..Len(trace) :
       trace[i].op = "get_adapter_path" /\ trace[i].arg # "raised"
  /\ RegistryKey(IF rpc = "PublishContent" THEN locals.platform_info.name
                 ELSE request.platform,
                 ProtocolOf(rpc)) \notin DOMAIN registry

\* the platform's service type is not one its protocol's handler accepts
\* (a protocol_type other than oauth2, pnba and event has no publication
\* handler at all and is not a case of C6)
ServiceTypeNotHandled ==
  /\ rpc = "PublishContent"
  /\ Succeeded("route")
  /\ LET info == locals.platform_info
     IN \/ info.protocol_type = "oauth2"
           /\ info.service_type \notin {"email", "text"}
        \/ info.protocol_type = "pnba" /\ info.service_type # "message"
        \/ info.protocol_type = "event" /\ info.service_type # "test"

CredentialOps ==
  { "list_tokens", "get_access_token", "store_token", "update_token",
    "delete_token" }

\* C6: in every handler, when the registry has no adapter for the
\* (platform, protocol) pair or the service type is not handled by the
\* protocol, the call ends UNIMPLEMENTED, nothing is captured by Sentry, no
\* adapter is invoked, no credential-store operation is made and no
\* notification is dispatched.
C6_UnsupportedIsUnimplemented ==
  (NoAdapterForPair \/ ServiceTypeNotHandled)
  => /\ Returned
     /\ ~outcome.success
     /\ context.code = "UNIMPLEMENTED"
     /\ sentry = <<>>
     /\ notifications = <<>>
     /\ ~Did("invoke")
     /\ \A op \in CredentialOps : ~Did(op)

\* an exchange request for a platform the registry does not hold
C6_Witness ==
  /\ rpc = "ExchangeOAuth2CodeAndStore"
  /\ request.platform = "nosuch"
  /\ NoAdapterForPair
  /\ pc = "done"

\* C7: in every handler a failure of the subprocess channel (timeout,
\* nonzero exit, output that is not JSON) ends the RPC with INTERNAL, and an
\* error reported by the adapter in a well-formed response ends it with
\* INVALID_ARGUMENT.
C7_ChannelFailureIsInternal ==
  pc = "done" =>
    \A i \in 1..Len(trace) :
      trace[i].op = "invoke" =>
        /\ trace[i].proc.kind \in {"timeout", "nonzero", "badjson"}
             => context.code = "INTERNAL"
        /\ (trace[i].proc.kind = "json" /\ trace[i].proc.error # "")
             => context.code = "INVALID_ARGUMENT"

\* C8: a response whose success flag is false comes with a status code other
\* than OK and with details.  (The answer of GetOAuth2AuthorizationUrl is
\* built without a success flag and is left out.)
C8_FailureHasStatus ==
  (/\ Returned
   /\ ~outcome.success
   /\ ~(rpc = "GetOAuth2AuthorizationUrl" /\ Succeeded("invoke")))
  => /\ context.code # "OK"
     /\ context.details.text # ""

\* the required fields of the request that are empty, by position
MissingPositions ==
  { i \in 1..Len(RequiredFields(rpc)) :
      FieldMissing(request, RequiredFields(rpc)[i]) }

\* C9: in every handler, when a required field is empty the call ends with
\* INVALID_ARGUMENT and details naming the first missing field in the
\* declared order; nothing is captured by Sentry, and no registry lookup,
\* vault call, adapter invocation or notification happens.
C9_MissingFieldRejected ==
  (pc \notin {"idle", "validate"} /\ MissingPositions # {})
  => LET first == CHOOSE i \in MissingPositions :
                    \A j \in MissingPositions : i <= j
     IN /\ Returned
        /\ ~outcome.success
        /\ context.code = "INVALID_ARGUMENT"
        /\ context.details
             = Details("", MissingText(RequiredFields(rpc)[first]), <<>>)
        /\ sentry = <<>>
        /\ notifications = <<>>
        /\ \A i \in 1..Len(trace) : trace[i].op = "validate"

\* a request with its second and fourth required fields empty
C9_Witness ==
  /\ rpc = "ExchangePNBACodeAndStore"
  /\ pc = "done"
  /\ request.long_lived_token # ""
  /\ request.phone_number = ""
  /\ request.platform # ""
  /\ request.authorization_code = ""
  /\ context.details.text = MissingText("phone_number")

\* the lookup of the decoded shortcode completes and no adapter of the
\* registry has it
ShortcodeMatchesNothing ==
  LET p == populate_registry(adapters_dir, registry, cache_hash)
  IN /\ ~p.raised
     /\ \A k \in DOMAIN p.registry :
          p.registry[k].shortcode # locals.decoded_payload["platform_shortcode"]

\* C10: a PublishContent request whose decoded shortcode c matches no adapter
\* of the registry ends with INVALID_ARGUMENT and the details "No platform
\* found for shortcode 'c'.", is captured by Sentry, and makes no decrypt, no
\* credential-store operation and no adapter invocation.
C10_UnknownShortcodeRejected ==
  [][(pc = "identify" /\ pc' # "identify" /\ ShortcodeMatchesNothing)
     => /\ pc' = "done"
        /\ outcome' = Response("returned", FALSE, "")
        /\ context'.code = "INVALID_ARGUMENT"
        /\ context'.details
             = Details("", "No platform found for shortcode",
                       locals.decoded_payload["platform_shortcode"])
        /\ Len(sentry') = 1
        /\ sentry'[1].capture = "message"
        /\ \A i \in 1..Len(trace') :
             trace'[i].op \notin CredentialOps \cup {"decrypt", "invoke"}]_vars

\* a payload with the shortcode "z", which no adapter has
C10_Witness ==
  /\ rpc = "PublishContent"
  /\ pc = "done"
  /\ context.details.shortcode = << 122 >>
  /\ context.code = "INVALID_ARGUMENT"
  /\ \E i \in 1..Len(trace) : trace[i].op = "get_adapter" /\ ~trace[i].ok

\* the adapter call of the request answered without a transport error and
\* with a result, and the result reports success
AdapterReportedSuccess ==
  \E i \in 1..Len(trace) :
    /\ trace[i].op = "invoke"
    /\ trace[i].proc.kind = "json"
    /\ trace[i].proc.error = ""
    /\ ~trace[i].proc.result.null
    /\ trace[i].proc.result.success

\* C11: during PublishContent on an oauth2 platform the vault's update-token
\* operation is called only after the adapter's send has reported success;
\* a result with success=false leaves update-token uncalled.
C11_UpdateOnlyAfterSuccess ==
  (rpc = "PublishContent" /\ Did("update_token")) => AdapterReportedSuccess

\* the fields handle_oauth2_publication reads from the extracted content
InBand ==
  OAuth2Data(locals.platform_info.service_type, locals.content_parts)

\* an oauth2 publish that reached the adapter call
OAuth2Sent ==
  /\ rpc = "PublishContent"
  /\ locals.platform_info.protocol_type = "oauth2"
  /\ Did("invoke")

\* C12: when the content of an oauth2 publish carries a non-empty access
\* token and a non-empty refresh token, the adapter gets the stored credential
\* with these two put over it, update-token is not called and the stored
\* credential stays what it was; when one of the two is missing the adapter
\* gets the stored credential as it is.
C12_InBandTokensNotPersisted ==
  OAuth2Sent =>
    \A i \in 1..Len(trace) :
      trace[i].op = "invoke" =>
        IF /\ InBand.access_token # None /\ InBand.access_token # <<>>
           /\ InBand.refresh_token # None /\ InBand.refresh_token # <<>>
        THEN /\ trace[i].token.access_token = InBand.access_token
             /\ trace[i].token.refresh_token = InBand.refresh_token
             /\ ~Did("update_token")
             /\ vault = Stored(locals.token)
        ELSE trace[i].token = locals.token

\* a finished oauth2 publish with both tokens in the content, whose adapter
\* returned a refreshed token
C12_Witness ==
  /\ OAuth2Sent
  /\ pc = "done"
  /\ InBand.access_token = << 65 >>
  /\ InBand.refresh_token = << 82 >>
  /\ \E i \in 1..Len(trace) :
       /\ trace[i].op = "invoke"
       /\ trace[i].proc.kind = "json"
       /\ trace[i].proc.result.has_token

\* C13: in an oauth2 publish the outcome notification carries a refresh alert
\* if and only if the content carried an access+refresh token pair and the
\* adapter returned a refresh token that differs from the in-band one; the
\* alert is base64(sender ":" new refresh token); there is no alert when the
\* adapter returns no refreshed token.
C13_RefreshAlertIffChanged ==
  (OAuth2Sent /\ pc = "done") =>
    \A n \in 1..Len(notifications) : \A i \in 1..Len(trace) :
      trace[i].op = "invoke" =>
        LET result == trace[i].proc.result
            changed ==
              /\ Truthy(InBand.access_token)
              /\ Truthy(InBand.refresh_token)
              /\ trace[i].ok
              /\ ~result.null
              /\ result.has_token
              /\ result.token.refresh_token # InBand.refresh_token
        IN /\ (notifications[n].additional_data # None) <=> changed
           /\ changed =>
                notifications[n].additional_data
                  = b64encode(InBand.sender_id \o << Colon >>
                              \o result.token.refresh_token)

\* communicate has given up on a child that neither answered nor ended
TimedOut == ipc.at = "exit" /\ ipc.pending = "TimeoutExpired"

\* C14: when the child neither produces output nor exits before the timeout,
\* invoke eventually hands control back to its caller, failing with the
\* timeout error, and no child of the call is alive once it has finished.
C14_TimeoutEventuallyReturns ==
  TimedOut ~>
    (/\ ipc.at = "done"
     /\ ipc.state = "raised"
     /\ ipc.text = "RuntimeError: Adapter invocation timed out."
     /\ ~process.alive)

\* invoke has finished with a child that ended before communicate gave up
Answered ==
  /\ ipc.at = "done"
  /\ process.spawned
  /\ ipc.pending # "TimeoutExpired"

AddFailedAfterFetch ==
  /\ manager.op = "add"
  /\ manager.fetched
  /\ manager.raised \notin { "", "configparser.Error" }

\* C16: when add_adapter_from_github fails after the repository was fetched,
\* the adapters directory and the venv directory hold exactly what they held
\* before the call, and the next registry population registers no adapter
\* that it would not have registered without the call.
C16_FailedAddLeavesNoTrace ==
  AddFailedAfterFetch =>
    /\ adapters_root = manager.before.adapters
    /\ venv_root = manager.before.venvs
    /\ DOMAIN Populate(adapters_root, registry, cache_hash).registry
         \subseteq DOMAIN Populate(manager.before.adapters, registry, cache_hash).registry

\* C17: a second call of _populate_registry, with no change to the adapters
\* directory since the first, does not rescan: the registry is not cleared,
\* its entries are those the first call left, and the cached hash is the same.
C17_SecondPopulateIsNoOp ==
  [][(manager.op = "populate" /\ manager'.op = "populate") =>
       /\ ~manager'.rescanned
       /\ registry' = registry
       /\ cache_hash' = cache_hash]_vars

\* a call found the registry up to date and left the adapters it held
C17_Witness ==
  /\ manager.op = "populate"
  /\ ~manager.rescanned
  /\ manager.before.registry = registry
  /\ manager.before.cache_hash = cache_hash
  /\ DOMAIN registry # {}

\* the registry remove_adapter looks its name up in
RegistryAtRemove ==
  Populate(manager.before.adapters, manager.before.registry, manager.before.cache_hash).registry

V0Shaped ==
  /\ Len(payload) >= 5
  /\ \E n \in 0..(Len(payload) - 5) : SubSeq(payload, 1, 4) = Int32LE(n)

\* C19: is_v0_payload is true exactly of the buffers of at least 5 bytes
\* whose first 4 bytes are a little-endian signed 32-bit n >= 0 with the
\* buffer at least 4 + 1 + n long; decode_content applies the v0 layout to
\* exactly those, and to any other takes byte 0 as the version tag and
\* applies the tagged layout to the bytes after it.
C19_V0Detection ==
  /\ decoded.by = "is_v0_payload" => (decoded.value <=> V0Shaped)
  /\ decoded.by = "decode_content" =>
       IF V0Shaped
       THEN decoded.out = parse_payload(payload, V0Parsers)
       ELSE IF payload = << >>
       THEN decoded.out.err
       ELSE LET tagged == parse_payload(Tail(payload), V1Parsers)
            IN  /\ decoded.out.err = tagged.err
                /\ ~tagged.err =>
                     /\ decoded.out.result["version"] = Head(payload)
                     /\ \A k \in DOMAIN tagged.result : decoded.out.result[k] = tagged.result[k]

\* a buffer whose length field is negative was taken as tagged, not as v0
C19_Witness ==
  /\ decoded.by = "decode_content"
  /\ Len(payload) >= 5
  /\ UnpackInt32(SubSeq(payload, 1, 4)) < 0
  /\ ~decoded.out.err
  /\ decoded.out.result["version"] = 255

\* C20: decode_v0 of int32le(len(c)) + s + c + d, s one ASCII character and
\* d possibly empty, returns no error and len_ciphertext = len(c),
\* platform_shortcode = s, ciphertext = c, device_id = d.
C20_DecodeV0RoundTrip ==
  decoded.by = "decode_v0" =>
    \A c \in BytesUpTo(MaxTail) : \A s \in { x \in SampleBytes : x < 128 } :
      LET front == Int32LE(Len(c)) \o << s >> \o c
          d == SubSeq(payload, Len(front) + 1, Len(payload))
      IN  payload = front \o d =>
            /\ ~decoded.out.err
            /\ decoded.out.result["len_ciphertext"] = Len(c)
            /\ decoded.out.result["platform_shortcode"] = << s >>
            /\ decoded.out.result["ciphertext"] = c
            /\ decoded.out.result["device_id"] = d

\* a buffer with a ciphertext and a device id came apart into both
C20_Witness ==
  /\ decoded.by = "decode_v0"
  /\ payload = Int32LE(1) \o << 103 >> \o << 200 >> \o << 1 >>
  /\ ~decoded.out.err
  /\ decoded.out.result["ciphertext"] = << 200 >>
  /\ decoded.out.result["device_id"] = << 1 >>

\* the one-character ASCII samples
AsciiSamples == { x \in SampleBytes : x < 128 }

\* C21: decode_content of base64(tag + uint16le(len(c)) + uint8(len(d)) + s
\* + c + d + l), tag 1 or 2, c and d possibly empty, s one ASCII character
\* and l two, returns no error, the version of the tag, and len_ciphertext =
\* len(c), len_device_id = len(d), platform_shortcode = s, ciphertext = c,
\* device_id = d, language = l.
C21_TaggedRoundTrip ==
  decoded.by = "decode_content" =>
    \A tag \in { 1, 2 } : \A c \in BytesUpTo(MaxTail), d \in BytesUpTo(MaxTail) :
      \A s \in AsciiSamples, l1 \in AsciiSamples, l2 \in AsciiSamples :
        payload = << tag, Len(c) % 256, Len(c) \div 256, Len(d), s >> \o c \o d \o << l1, l2 >> =>
          /\ ~decoded.out.err
          /\ "version" \in DOMAIN decoded.out.result
          /\ decoded.out.result["version"] = tag
          /\ decoded.out.result["len_ciphertext"] = Len(c)
          /\ decoded.out.result["len_device_id"] = Len(d)
          /\ decoded.out.result["platform_shortcode"] = << s >>
          /\ decoded.out.result["ciphertext"] = c
          /\ decoded.out.result["device_id"] = d
          /\ decoded.out.result["language"] = << l1, l2 >>

\* the bytes a layout is read from, and the layout
Envelope ==
  IF decoded.by = "decode_v0"
  THEN [bytes |-> payload, layout |-> V0Parsers]
  ELSE [bytes |-> Tail(payload), layout |-> V1Parsers]

\* the buffer ends before the declared size of some field
EndsEarly ==
  IF decoded.by = "decode_v0"
  THEN Len(payload) < 4 \/ Len(payload) < 5 + UnpackInt32(SubSeq(payload, 1, 4))
  ELSE Len(payload) < 4 \/ Len(payload) < 1 + 2 + 1 + 1 + UnpackUInt16(SubSeq(payload, 2, 3)) + payload[4] + 2

\* nothing but the early end is wrong with the buffer: there is a tag byte
\* where the layout has one, the v0 length is not negative, and the
\* shortcode, if there, is ASCII
OtherwiseSound ==
  /\ decoded.by = "decode_v1" => payload # << >>
  /\ (decoded.by = "decode_v0" /\ Len(payload) >= 4) => UnpackInt32(SubSeq(payload, 1, 4)) >= 0
  /\ Len(payload) >= 5 => payload[5] < 128

\* where field i of the layout starts, the fields before it being read
RECURSIVE StartOf(_, _, _, _)
StartOf(layout, result, len, i) ==
  IF i = 1 THEN 0
  ELSE StartOf(layout, result, len, i - 1) + FmtSize(layout[i - 1], result, len)

\* field i read whole at its place in the buffer
ReadWhole(bytes, layout, result, i) ==
  LET from == StartOf(layout, result, Len(bytes), i)
      size == FmtSize(layout[i], result, Len(bytes))
      raw == SubSeq(bytes, from + 1, from + size)
  IN  /\ from + size <= Len(bytes)
      /\ result[layout[i].key] =
           CASE layout[i].fmt = "<i" -> UnpackInt32(raw)
             [] layout[i].fmt = "<H" -> UnpackUInt16(raw)
             [] layout[i].fmt = "<B" -> raw[1]
             [] OTHER -> raw

Extracted == decoded.by = "extract_content" /\ decoded.out.error = NoError

\* C23: for every payload version and every supported service type a
\* successful extraction returns exactly the number of positional fields of
\* the service type: email 8, text 4, message 3, test 1.
C23_FieldCountPerServiceType ==
  (Extracted /\ decoded.service_type \in { "email", "text", "message", "test" }) =>
    Len(decoded.out.parts) =
      CASE decoded.service_type = "email" -> 8
        [] decoded.service_type = "text" -> 4
        [] decoded.service_type = "message" -> 3
        [] OTHER -> 1

\* the number of colon-delimited parts of the buffer
NParts == 1 + Cardinality({ k \in 1..Len(payload) : payload[k] = Colon })

\* the first n of the parts, put together again with colons
RECURSIVE Rejoined(_, _)
Rejoined(parts, n) ==
  IF n = 1 THEN parts[1] ELSE Rejoined(parts, n - 1) \o << Colon >> \o parts[n]

\* C24: extract_content_v0 returns an error exactly when the content has
\* fewer parts than the service type's minimum (email 6, text 2, message 3,
\* test none) or the service type is none of the four; otherwise it returns
\* the parts in order, an absent trailing token as None, and everything
\* after the last permitted split (email 7, text 3, message 2) in the final
\* field, colons included.
C24_V0ExtractionByParts ==
  (decoded.by = "extract_content" /\ decoded.version = 0) =>
    LET st == decoded.service_type
        least == CASE st = "email" -> 6 [] st = "text" -> 2 [] st = "message" -> 3 [] OTHER -> 0
        most == CASE st = "email" -> 8 [] st = "text" -> 4 [] st = "message" -> 3 [] OTHER -> 1
        n == IF NParts < most THEN NParts ELSE most
        parts == decoded.out.parts
    IN  /\ decoded.out.error # NoError <=>
             (st \notin { "email", "text", "message", "test" } \/ NParts < least)
        /\ (decoded.out.error = NoError /\ st = "test") => parts = << payload >>
        /\ (decoded.out.error = NoError /\ st # "test") =>
             /\ Len(parts) = most
             /\ \A i \in 1..most : (parts[i] = None) <=> i > n
             /\ \A i \in 1..(n - 1) : \A k \in 1..Len(parts[i]) : parts[i][k] # Colon
             /\ Rejoined(parts, n) = payload

\* an email of ten parts: the refresh token field holds the last three,
\* with their colons
C24_Witness ==
  /\ decoded.by = "extract_content"
  /\ decoded.version = 0
  /\ decoded.service_type = "email"
  /\ NParts = 10
  /\ decoded.out.error = NoError
  /\ decoded.out.parts[8] = << 104, Colon, 105, Colon, 106 >>

\* field i of a packed record with these lengths
Letters(lengths, i) == [k \in 1..lengths[i] |-> 96 + i]

C26_LookupNeverSeesRebuild ==
  \A t \in Threads :
    (threads[t].at = "done" /\ threads[t].on_disk) =>
      threads[t].result \notin { "not found", "RuntimeError" }

\* the registry keys of the directories whose manifest loads
Loadable(listing) ==
  { RegistryKey(listing[i].manifest.name, listing[i].manifest.protocol_type) :
      i \in { j \in 1..Len(listing) : listing[j].state = "ok" /\ listing[j].manifest.name # "" } }

\* C27: whenever the cached hash is the directory's hash, the registry holds
\* one entry, under lowercase(name)_lowercase(protocol_type), for each adapter
\* directory with a loadable manifest and no others, also after a populate
\* call that an exception cut short
C27_HashMatchMeansRegistryExact ==
  cache_hash = Digest(adapters_root) =>
    /\ DOMAIN registry = Loadable(adapters_root)
    /\ \A k \in DOMAIN registry :
         \E i \in 1..Len(adapters_root) :
           /\ adapters_root[i].state = "ok"
           /\ registry[k] = adapters_root[i].manifest @@ ("path" :> adapters_root[i].dir)

\* the vault did not take the token handed to update_entity_token
UpdateFailed == \E i \in 1..Len(trace) : trace[i].op = "update_token" /\ ~trace[i].ok

\* C28: when update_entity_token fails after an oauth2 send (an RPC error or
\* success=false), PublishContent's response, status code and outcome
\* notification are what they are when the update succeeds; a send the
\* adapter reported successful is answered as published.
C28_UpdateFailureNotReported ==
  (OAuth2Sent /\ pc = "done" /\ UpdateFailed) =>
    \A i \in 1..Len(trace) :
      trace[i].op = "invoke" =>
        LET x == OAuth2Publication(trace[i].proc, VaultAnswer("ok", "", <<>>, ""), locals, vault).x
        IN  /\ outcome = x.outcome
            /\ context = x.context
            /\ notifications = x.notes
            /\ AdapterReportedSuccess =>
                 /\ outcome = Response("returned", TRUE, "Successfully published message")
                 /\ context.code = "OK"
                 /\ Len(notifications) = 1
                 /\ notifications[1].status = "published"

\* a send the adapter reported successful, followed by an update the vault refused
C28_Witness ==
  /\ OAuth2Sent
  /\ pc = "done"
  /\ UpdateFailed
  /\ AdapterReportedSuccess
  /\ outcome.success

\* C29: in an oauth2 publish without an in-band token pair the stored
\* credential is rewritten only when the adapter's result carries a refreshed
\* token, and then with that token; a result without one leaves update-token
\* uncalled and the stored credential is never replaced by an empty value.
C29_RewriteOnlyWithRefreshedToken ==
  (OAuth2Sent /\ pc = "done" /\ ~(Truthy(InBand.access_token) /\ Truthy(InBand.refresh_token))) =>
    \A i \in 1..Len(trace) :
      trace[i].op = "invoke" =>
        LET result == trace[i].proc.result
            reported == trace[i].ok /\ ~result.null /\ result.has_token
        IN  /\ vault \in { Stored(locals.token) } \cup (IF reported THEN { Stored(result.token) } ELSE {})
            /\ ~reported => ~Did("update_token")
            /\ vault # Stored(EmptyDict)

\* C30: RevokeAndDeleteOAuth2Token and RevokeAndDeletePNBAToken call the
\* vault's delete-token only after the adapter's revoke / invalidate call
\* succeeded; when the adapter's response carries an error the stored
\* credential is not deleted and the RPC ends with INVALID_ARGUMENT.
C30_DeleteOnlyAfterRevoke ==
  (rpc \in { "RevokeAndDeleteOAuth2Token", "RevokeAndDeletePNBAToken" } /\ pc = "done") =>
    \A i \in 1..Len(trace) :
      trace[i].op = "invoke" =>
        /\ Did("delete_token") => trace[i].ok
        /\ (invoke(trace[i].proc).raised = "" /\ invoke(trace[i].proc).error # "") =>
             /\ ~Did("delete_token")
             /\ vault.stored
             /\ context.code = "INVALID_ARGUMENT"

\* the six token-lifecycle handlers
TokenHandlers ==
  { "GetOAuth2AuthorizationUrl", "ExchangeOAuth2CodeAndStore", "RevokeAndDeleteOAuth2Token",
    "GetPNBACode", "ExchangePNBACodeAndStore", "RevokeAndDeletePNBAToken" }

\* an exception no handler expects was raised: by the adapter lookup or by
\* the adapter call
RaisedUnexpected ==
  \E i \in 1..Len(trace) :
    \/ trace[i].op = "get_adapter_path" /\ trace[i].arg = "raised"
    \/ trace[i].op = "invoke" /\ invoke(trace[i].proc).raised # ""

\* C31: in each of the six token-lifecycle handlers an unexpected exception
\* ends the RPC with INTERNAL and the generic retry message and is reported
\* to the external error tracking.
C31_UnexpectedIsInternalAndReported ==
  (rpc \in TokenHandlers /\ pc = "done" /\ RaisedUnexpected) =>
    /\ context.code = "INTERNAL"
    /\ context.details.text = Oops
    /\ sentry # << >>

\* C32: after a populate-registry call the registry holds no adapter whose
\* directory lacks one of manifest.ini, main.py and config.ini; such a
\* directory is skipped and the others are registered.
C32_IncompleteDirectoriesSkipped ==
  (manager.op = "populate" /\ manager.raised = "") =>
    /\ \A k \in DOMAIN registry : \A i \in 1..Len(adapters_root) :
         adapters_root[i].dir = registry[k].path => adapters_root[i].files
    /\ \A i \in 1..Len(adapters_root) :
         (adapters_root[i].state = "ok" /\ adapters_root[i].manifest.name # "" /\ adapters_root[i].files) =>
           RegistryKey(adapters_root[i].manifest.name, adapters_root[i].manifest.protocol_type) \in DOMAIN registry

\* C33: in every reachable registry no two entries have the same shortcode,
\* so that get_adapter(shortcode) does not depend on the order of the
\* directories.
C33_ShortcodesUnique ==
  \A j \in DOMAIN registry : \A k \in DOMAIN registry :
    registry[j].shortcode = registry[k].shortcode => j = k

\* C34: the decoded envelope is untagged (V0) or has version 1 or 2, and a
\* payload past decrypt gets exactly one extractor; one that is neither v0
\* nor tagged 1 or 2 is rejected with INVALID_ARGUMENT and never reaches the
\* routing stage.
C34_VersionIsV0V1V2 ==
  (rpc = "PublishContent" /\ pc = "done" /\ Succeeded("decrypt")) =>
    LET tagged == "version" \in DOMAIN locals.decoded_payload
        known == ~tagged \/ locals.decoded_payload["version"] \in { 1, 2 }
    IN  \/ known /\ Did("extract")
        \/ ~known /\ context.code = "INVALID_ARGUMENT" /\ ~Did("route")

\* the adapter calls of the request
Invocations == { i \in 1..Len(trace) : trace[i].op = "invoke" }

\* the platform identified has a protocol type PublishContent has no handler for
NoHandlerForProtocol ==
  /\ rpc = "PublishContent"
  /\ Succeeded("extract")
  /\ locals.platform_info.protocol_type \notin { "oauth2", "pnba", "event" }

\* C35: PublishContent returns success=true only when exactly one adapter
\* call was made in the request; for a platform whose protocol_type is none
\* of oauth2, pnba and event no adapter is called, the credential store is
\* not touched, and the request ends with an error status and a 'failed'
\* notification.
C35_SuccessNeedsOneInvocation ==
  (rpc = "PublishContent" /\ pc = "done") =>
    /\ (outcome.state = "returned" /\ outcome.success) => Cardinality(Invocations) = 1
    /\ NoHandlerForProtocol =>
         /\ Invocations = {}
         /\ ~Did("get_access_token")
         /\ ~Did("update_token")
         /\ ~(outcome.state = "returned" /\ outcome.success)
         /\ context.code # "OK"
         /\ Len(notifications) = 1
         /\ notifications[1].status = "failed"

\* a publish for the smtp bridge has come to its end
C35_Witness ==
  /\ NoHandlerForProtocol
  /\ pc = "done"
  /\ Did("route")
  /\ context.code = "INTERNAL"

\* the publish has been routed to the handler of this protocol type
RoutedTo(protocol_type) ==
  /\ rpc = "PublishContent"
  /\ Did("route")
  /\ locals.platform_info.protocol_type = protocol_type

\* C36: within PublishContent the credential store is written (update-token)
\* only on the oauth2 path without in-band tokens; an event/test publish makes
\* no credential-store call at all, and a pnba publish reads the credential
\* before its adapter call and never updates it.
C36_StoreWrittenOnlyOnOAuth2 ==
  rpc = "PublishContent" =>
    /\ Did("update_token") =>
         /\ RoutedTo("oauth2")
         /\ ~(Truthy(InBand.access_token) /\ Truthy(InBand.refresh_token))
    /\ RoutedTo("event") =>
         /\ ~Did("get_access_token")
         /\ ~Did("update_token")
    /\ RoutedTo("pnba") =>
         /\ ~Did("update_token")
         /\ Did("invoke") => Succeeded("get_access_token")

\* a pnba publish whose adapter call has been made
C36_Witness ==
  /\ RoutedTo("pnba")
  /\ pc = "done"
  /\ Succeeded("get_access_token")
  /\ Succeeded("invoke")
  /\ outcome.success

\* the adapter answered and asks for the account's password
TwoStepAsked ==
  \E i \in Invocations :
    /\ trace[i].ok
    /\ ~trace[i].proc.result.null
    /\ trace[i].proc.result.two_step_verification_enabled

\* C37: ExchangePNBACodeAndStore stores no credential before verification is
\* complete: when the adapter's result reports two_step_verification_enabled
\* the handler returns success with the two-step answer and store-token is
\* not called; store-token is called only after an adapter result without
\* error and without that flag; the password-validation method is the one
\* called exactly when the request carries a non-empty password.
C37_NoStoreBeforeVerified ==
  (rpc = "ExchangePNBACodeAndStore" /\ pc = "done") =>
    /\ Cardinality(Invocations) <= 1
    /\ \A i \in Invocations :
         (trace[i].arg = "validate_password_and_fetch_user_info") <=> (request.password # "")
    /\ \A i \in Invocations :
         trace[i].arg \in { "validate_password_and_fetch_user_info", "validate_code_and_fetch_user_info" }
    /\ TwoStepAsked =>
         /\ ~Did("store_token")
         /\ outcome = Response("returned", TRUE, "two-steps verification is enabled and a password is required")
         /\ context.code = "OK"
    /\ Did("store_token") =>
         \E i \in Invocations : trace[i].ok /\ ~trace[i].proc.result.null /\ ~trace[i].proc.result.two_step_verification_enabled

\* the adapter asked for the password and the handler has answered
C37_Witness ==
  /\ rpc = "ExchangePNBACodeAndStore"
  /\ pc = "done"
  /\ TwoStepAsked
  /\ outcome.success

\* a bundle with all required files and a manifest that loads and names the adapter
Sound(repo) == repo.files /\ repo.manifest_state = "ok" /\ repo.manifest.name # ""

\* C38: add_adapter_from_github never changes or deletes an adapter directory
\* that was there before the call: when a directory of the repository's name
\* exists it returns with nothing changed, and when a directory of the
\* canonical name {name}_{protocol} exists it raises and leaves the
\* directories as they were.
C38_AddLeavesExistingAlone ==
  /\ manager.op = "add" =>
       /\ \A i \in 1..Len(manager.before.adapters) :
            i <= Len(adapters_root) /\ adapters_root[i] = manager.before.adapters[i]
       /\ ~manager.fetched => (adapters_root = manager.before.adapters /\ manager.raised = "")
       /\ manager.raised = "ValueError: Adapter already exists." => adapters_root = manager.before.adapters
  /\ \A repo \in Repositories :
       LET a == add_adapter_from_github(adapters_root, venv_root, repo)
       IN  /\ Exists(adapters_root, repo.repo_name) =>
                (a.adapters = adapters_root /\ a.venvs = venv_root /\ a.raised = "")
           /\ (~Exists(adapters_root, repo.repo_name) /\ Sound(repo) /\ Exists(adapters_root, NewDirName(repo.manifest))) =>
                (a.adapters = adapters_root /\ a.raised = "ValueError: Adapter already exists.")

\* a bundle for gmail was fetched while gmail_oauth2 was installed
C38_Witness ==
  /\ manager.op = "add"
  /\ manager.fetched
  /\ manager.raised = "ValueError: Adapter already exists."
  /\ Exists(manager.before.adapters, "gmail_oauth2")
  /\ adapters_root = manager.before.adapters

\* C39: for a fetched bundle with all required files and a valid manifest,
\* add_adapter_from_github succeeds and leaves the bundle under the canonical
\* lowercase {name}_{protocol} directory whenever no directory of that name
\* was there before the call, whatever the repository is named (its name may
\* be the canonical name).  Bundles whose dependencies cannot be installed
\* are left aside.
C39_SoundBundleIsInstalled ==
  \A repo \in Repositories :
    LET a == add_adapter_from_github(adapters_root, venv_root, repo)
        canonical == NewDirName(repo.manifest)
        fetched == ~Exists(adapters_root, repo.repo_name)
        installable == repo.requirements => (repo.installs /\ canonical \notin venv_root)
    IN  (Sound(repo) /\ fetched /\ installable /\ ~Exists(adapters_root, canonical)) =>
          /\ a.raised = ""
          /\ \E i \in 1..Len(a.adapters) :
               /\ a.adapters[i].dir = canonical
               /\ a.adapters[i].manifest = repo.manifest

====
